---- MODULE Spec2Model ----
(***************************************************************************)
(* Model of src/openrct2/interface/Viewport.cpp: the viewport registry and *)
(* its lifecycle, the per-tick focus update and ViewportMove, the          *)
(* column-parallel ViewportPaint and the picking scan.                     *)
(*                                                                         *)
(* One set of variables is shared by several specifications; each          *)
(* specification drives one part of the file and leaves the rest at its    *)
(* initial value:                                                          *)
(*   Spec        ViewportCreate / ViewportRemove on the registry           *)
(*   SpecView    one window's viewport: create, tick, rotate               *)
(*   SpecScroll  the scrolling-to-location transition (with fairness)      *)
(*   SpecPaint   ViewportPaint with the worker pool                        *)
(*   SpecColumns ViewportPaint's column partition over wide inputs         *)
(*   SpecPick    SetInteractionInfoFromPaintSession                        *)
(***************************************************************************)
EXTENDS Integers, Sequences, FiniteSets, TLC

VARIABLES
    viewports,      \* _viewports: the std::list<Viewport>, in list order
    windows,        \* the WindowBase fields this file reads and writes
    entities,       \* the entity table behind GetEntity / TryGetEntity
    lastCall,       \* history: the last operation called and how it returned
    cfgMultiThreading, \* Config::Get().general.MultiThreading
    paintJobs,      \* _paintJobs: nullptr or the pool's queue and running tasks
    paintColumns,   \* _paintColumns: the sessions of the current paint call
    sessions,       \* PaintSession objects by address
    paint,          \* ViewportPaint's position and locals
    pick,           \* the picking scan's session, arguments and result
    damage,         \* the invalidate call in progress and what it marked dirty
    calc,           \* a coordinate or zoom computation: its inputs and results
    gShowGridLinesRefCount \* the uint8_t reference count of line 58

vars == <<viewports, windows, entities, lastCall, cfgMultiThreading, paintJobs,
          paintColumns, sessions, paint, pick, damage, calc, gShowGridLinesRefCount>>

registryVars == <<viewports, windows, entities, lastCall>>
paintVars == <<cfgMultiThreading, paintJobs, paintColumns, sessions, paint>>
pickVars == <<pick>>
damageVars == <<damage>>
calcVars == <<calc, gShowGridLinesRefCount>>

(***************************************************************************)
(* Bounds of the model.                                                    *)
(***************************************************************************)
\* Capacity of the registry. Viewport.cpp compares against kMaxViewportCount
\* (line 179) but the header that sets it is not part of the source; the
\* model is parametric in it and is checked at this value and the next.
kMaxViewportCount == 3

(***************************************************************************)
(* Integer helpers.                                                        *)
(***************************************************************************)
Abs(v) == IF v < 0 THEN -v ELSE v

Max2(a, b) == IF a > b THEN a ELSE b

Min2(a, b) == IF a < b THEN a ELSE b

RECURSIVE Pow2(_)
Pow2(n) == IF n <= 0 THEN 1 ELSE 2 * Pow2(n - 1)

\* C++ integer division: truncates toward zero.
TruncDiv(a, b) == IF a >= 0 THEN a \div b ELSE -((-a) \div b)

\* Arithmetic right shift of a signed value: floor division by 2^n.
ShiftRight(v, n) == v \div Pow2(n)

ShiftLeft(v, n) == v * Pow2(n)

(***************************************************************************)
(* ZoomLevel (declared in ZoomLevel.h, outside the source at hand).        *)
(***************************************************************************)
ZoomApplyTo(zoom, v) ==
    IF zoom >= 0 THEN ShiftRight(v, zoom) ELSE ShiftLeft(v, -zoom)

ZoomApplyInversedTo(zoom, v) ==
    IF zoom >= 0 THEN ShiftLeft(v, zoom) ELSE ShiftRight(v, -zoom)

(***************************************************************************)
(* Coordinates.                                                            *)
(***************************************************************************)
nullptr == 0

EntityIdNull == 0

LOCATION_NULL == -32768

XY(x, y) == [x |-> x, y |-> y]

XYZ(x, y, z) == [x |-> x, y |-> y, z |-> z]

\* CoordsXY::Rotate
CoordsRotate(c, direction) ==
    CASE direction % 4 = 0 -> XY(c.x, c.y)
      [] direction % 4 = 1 -> XY(c.y, -c.x)
      [] direction % 4 = 2 -> XY(-c.x, -c.y)
      [] direction % 4 = 3 -> XY(-c.y, c.x)

DirectionFlipXAxis(direction) == (direction * 3) % 4

Translate3DTo2DWithZ(rotation, pos) ==
    LET rotated == CoordsRotate(pos, rotation)
    IN  XY(rotated.y - rotated.x, ShiftRight(rotated.x + rotated.y, 1) - pos.z)

ViewportPosToMapPos_SameRotation(coords, z, rotation) ==
    LET ret == XY(coords.y - TruncDiv(coords.x, 2) + z,
                  coords.y + TruncDiv(coords.x, 2) + z)
    IN  CoordsRotate(ret, rotation)

ViewportPosToMapPos(coords, z, rotation) ==
    LET ret == XY(coords.y - TruncDiv(coords.x, 2) + z,
                  coords.y + TruncDiv(coords.x, 2) + z)
    IN  CoordsRotate(ret, DirectionFlipXAxis(rotation))

\* std::optional<ScreenCoordsXY>: has |-> FALSE is std::nullopt
NullOpt == [has |-> FALSE, value |-> XY(0, 0)]

Some(v) == [has |-> TRUE, value |-> v]

\* Lines 130-131 left out: the view's corner, not its middle, put on loc
centre_2d_coordinates_Corner(loc, viewport) == IF loc.x = LOCATION_NULL THEN NullOpt ELSE Some(Translate3DTo2DWithZ(viewport.rotation, loc))

centre_2d_coordinates(loc, viewport) ==
    IF loc.x = LOCATION_NULL
    THEN NullOpt
    ELSE LET screenCoord == Translate3DTo2DWithZ(viewport.rotation, loc)
         IN  Some(XY(screenCoord.x - TruncDiv(viewport.view_width, 2),
                     screenCoord.y - TruncDiv(viewport.view_height, 2)))

(***************************************************************************)
(* Entities, focus and windows.                                            *)
(***************************************************************************)
\* Slots of the entity table; an id outside it resolves to nullptr.
EntityIds == {1, 2}

\* EntityBase with the Peep fields the focus tracker reads.
Entity(type, x, y, z, state) ==
    [Type |-> type, x |-> x, y |-> y, z |-> z, State |-> state,
     CurrentRide |-> 0, CurrentTrain |-> 0, CurrentCar |-> 0]

NoEntity == Entity("Null", LOCATION_NULL, 0, 0, "None")

\* GetEntity / TryGetEntity: has |-> FALSE is nullptr
GetEntity(id) ==
    IF id \in DOMAIN entities
    THEN [has |-> TRUE, value |-> entities[id]]
    ELSE [has |-> FALSE, value |-> NoEntity]

CoordinateFocus(pos, zoom) ==
    [kind |-> "coordinate", pos |-> pos, id |-> EntityIdNull, zoom |-> zoom]

EntityFocus(id, zoom) ==
    [kind |-> "entity", pos |-> XYZ(0, 0, 0), id |-> id, zoom |-> zoom]

\* Focus::GetPos
FocusGetPos(focus) ==
    IF focus.kind = "coordinate"
    THEN focus.pos
    ELSE LET centreEntity == GetEntity(focus.id)
         IN  IF centreEntity.has
             THEN XYZ(centreEntity.value.x, centreEntity.value.y, centreEntity.value.z)
             ELSE XYZ(0, 0, 0)

WindowIds == {"main", "ride"}

\* WindowGetMain: has |-> FALSE is nullptr
WindowGetMain ==
    IF \E w \in WindowIds : windows[w].classification = "MainWindow"
    THEN [has |-> TRUE,
          value |-> CHOOSE w \in WindowIds : windows[w].classification = "MainWindow"]
    ELSE [has |-> FALSE, value |-> "main"]

(***************************************************************************)
(* The registry: _viewports is a list of Viewport records; a Viewport* is  *)
(* the id field of the node it points to.                                  *)
(***************************************************************************)
VpPtrs == 1..(kMaxViewportCount + 1)

RegisteredPtrs == {viewports[i].id : i \in 1..Len(viewports)}

IsRegistered(ptr) == ptr \in RegisteredPtrs

VpIndex(ptr) == CHOOSE i \in 1..Len(viewports) : viewports[i].id = ptr

VpOf(ptr) == viewports[VpIndex(ptr)]

\* The address of a node newly inserted in the list: one not in use.
FreshPtr ==
    CHOOSE p \in VpPtrs :
        /\ p \notin RegisteredPtrs
        /\ \A q \in VpPtrs : (q \notin RegisteredPtrs) => p <= q

ViewportGetMain ==
    IF WindowGetMain.has THEN windows[WindowGetMain.value].viewport ELSE nullptr

GetCurrentRotation ==
    IF ViewportGetMain = nullptr THEN 0 ELSE VpOf(ViewportGetMain).rotation % 4

Called(op, w, result) == lastCall' = [op |-> op, w |-> w, result |-> result]

RegistryFull_OffByOne == Len(viewports) > kMaxViewportCount

\* ViewportCreate, line 179
RegistryFull == Len(viewports) >= kMaxViewportCount

ViewportCreateRejected_ClearsWindow(w) ==
    /\ windows' = [windows EXCEPT ![w].viewport = nullptr]
    /\ viewports' = viewports

\* ViewportCreate, lines 178-183: the early return
ViewportCreateRejected(w) ==
    /\ windows' = windows
    /\ viewports' = viewports

\* ViewportCreate, lines 185-200: the inserted Viewport before centring
NewViewport(screenCoords, width, height, focus, alwaysShowGridlines) ==
    [id |-> FreshPtr,
     pos |-> screenCoords,
     width |-> width,
     height |-> height,
     view_width |-> ZoomApplyTo(focus.zoom, width),
     view_height |-> ZoomApplyTo(focus.zoom, height),
     zoom |-> focus.zoom,
     flags |-> IF alwaysShowGridlines THEN {"GRIDLINES"} ELSE {},
     rotation |-> GetCurrentRotation,
     viewPos |-> XY(0, 0),
     visibility |-> "Unknown"]

\* ViewportCreate, lines 203-209: FALSE is the LOG_ERROR return
ViewportCreateCentres(screenCoords, width, height, focus, alwaysShowGridlines) ==
    centre_2d_coordinates(FocusGetPos(focus),
                          NewViewport(screenCoords, width, height, focus,
                                      alwaysShowGridlines)).has

\* The early return of line 208 left out: the empty optional is read, which
\* yields its zero storage.
ViewportCreateInsert_NoEarlyReturn(w, screenCoords, width, height, focus, alwaysShowGridlines) ==
    LET viewport == NewViewport(screenCoords, width, height, focus, alwaysShowGridlines)
        centrePos == FocusGetPos(focus)
        target == IF focus.kind = "coordinate" THEN EntityIdNull ELSE focus.id
        centreLoc == centre_2d_coordinates(centrePos, viewport)
    IN  /\ viewports' = Append(viewports, [viewport EXCEPT !.viewPos = centreLoc.value])
        /\ windows' = [windows EXCEPT
                          ![w].viewport = viewport.id,
                          ![w].viewport_target_sprite = target,
                          ![w].savedViewPos = centreLoc.value]

\* ViewportCreate, lines 185-222
ViewportCreateInsert(w, screenCoords, width, height, focus, alwaysShowGridlines) ==
    LET viewport == NewViewport(screenCoords, width, height, focus, alwaysShowGridlines)
        centrePos == FocusGetPos(focus)
        target == IF focus.kind = "coordinate" THEN EntityIdNull ELSE focus.id
        centreLoc == centre_2d_coordinates(centrePos, viewport)
    IN  /\ viewports' = Append(viewports,
                               IF centreLoc.has
                               THEN [viewport EXCEPT !.viewPos = centreLoc.value]
                               ELSE viewport)
        /\ windows' = [windows EXCEPT
                          ![w].viewport = viewport.id,
                          ![w].viewport_target_sprite = target,
                          ![w].savedViewPos =
                              IF centreLoc.has THEN centreLoc.value ELSE @]

ViewportCreate(w, screenCoords, width, height, focus, alwaysShowGridlines) ==
    /\ IF RegistryFull
       THEN /\ ViewportCreateRejected(w)
            /\ Called("ViewportCreate", w, "rejected")
       ELSE /\ ViewportCreateInsert(w, screenCoords, width, height, focus,
                                    alwaysShowGridlines)
            /\ Called("ViewportCreate", w,
                      IF ViewportCreateCentres(screenCoords, width, height, focus,
                                               alwaysShowGridlines)
                      THEN "created" ELSE "uncentred")
    /\ UNCHANGED <<entities, paintVars, pickVars, damageVars, calcVars>>

RemoveAt(list, i) == SubSeq(list, 1, i - 1) \o SubSeq(list, i + 1, Len(list))

\* The test against end() of line 228 left out: the erase takes an element
\* although none matched.
ViewportRemoveList_ErasesUnmatched(ptr) ==
    IF IsRegistered(ptr)
    THEN RemoveAt(viewports, VpIndex(ptr))
    ELSE SubSeq(viewports, 1, Len(viewports) - 1)

\* ViewportRemove, lines 224-233: the list after the call
ViewportRemoveList(ptr) ==
    IF IsRegistered(ptr) THEN RemoveAt(viewports, VpIndex(ptr)) ELSE viewports

\* ViewportRemove(viewport) called with a pointer no window holds
ViewportRemove(ptr) ==
    /\ \A w \in WindowIds : windows[w].viewport # ptr
    /\ viewports' = ViewportRemoveList(ptr)
    /\ Called("ViewportRemove", "none", IF IsRegistered(ptr) THEN "removed" ELSE "notfound")
    /\ UNCHANGED <<windows, entities, paintVars, pickVars, damageVars, calcVars>>

\* The owning window's close path: ViewportRemove(w->viewport), then the
\* pointer is cleared.
WindowRemoveViewport(w) ==
    /\ windows[w].viewport # nullptr
    /\ viewports' = ViewportRemoveList(windows[w].viewport)
    /\ windows' = [windows EXCEPT ![w].viewport = nullptr]
    /\ Called("ViewportRemove", w, "removed")
    /\ UNCHANGED <<entities, paintVars, pickVars, damageVars, calcVars>>


(***************************************************************************)
(* The device screen, the map and the terrain.                             *)
(***************************************************************************)
\* ContextGetWidth() and ContextGetHeight()
ScreenWidth == 16

ScreenHeight == 12

\* Half the side of the playable map: kMapMinimumXY and GetMapSizeMinus2().
MapLimit == 64

kMapMinimumXY == -MapLimit

GetMapSizeMinus2 == XY(MapLimit, MapLimit)

\* TileElementHeight: the terrain is a plateau of height 32 where x >= 32.
TileElementHeight(pos) == IF pos.x >= 32 THEN 32 ELSE 0

(***************************************************************************)
(* ViewportMove. The operators take and return the Viewport by value; the  *)
(* window is only read.                                                    *)
(***************************************************************************)
\* The subtraction made before the scaling, against the note of lines 504-506
MoveDiff_SubtractThenScale(coords, viewport) ==
    XY(ZoomApplyInversedTo(viewport.zoom, viewport.viewPos.x - coords.x),
       ZoomApplyInversedTo(viewport.zoom, viewport.viewPos.y - coords.y))

\* ViewportMove, lines 507-508
MoveDiff(coords, viewport) ==
    XY(ZoomApplyInversedTo(viewport.zoom, viewport.viewPos.x)
           - ZoomApplyInversedTo(viewport.zoom, coords.x),
       ZoomApplyInversedTo(viewport.zoom, viewport.viewPos.y)
           - ZoomApplyInversedTo(viewport.zoom, coords.y))

\* ViewportMove, lines 538-551: the clamp of the x extent
MoveClampX(viewport) ==
    LET zoom == viewport.zoom
        a == IF viewport.pos.x < 0
             THEN [viewport EXCEPT
                      !.width = @ + viewport.pos.x,
                      !.view_width = @ + ZoomApplyTo(zoom, viewport.pos.x),
                      !.viewPos.x = @ - ZoomApplyTo(zoom, viewport.pos.x),
                      !.pos.x = 0]
             ELSE viewport
        eax == a.pos.x + a.width - ScreenWidth
    IN  IF eax > 0
        THEN [a EXCEPT !.width = @ - eax, !.view_width = @ - ZoomApplyTo(zoom, eax)]
        ELSE a

\* ViewportMove, lines 559-572: the clamp of the y extent
MoveClampY(viewport) ==
    LET zoom == viewport.zoom
        a == IF viewport.pos.y < 0
             THEN [viewport EXCEPT
                      !.height = @ + viewport.pos.y,
                      !.view_height = @ + ZoomApplyTo(zoom, viewport.pos.y),
                      !.viewPos.y = @ - ZoomApplyTo(zoom, viewport.pos.y),
                      !.pos.y = 0]
             ELSE viewport
        eax == a.pos.y + a.height - ScreenHeight
    IN  IF eax > 0
        THEN [a EXCEPT !.height = @ - eax, !.view_height = @ - ZoomApplyTo(zoom, eax)]
        ELSE a

\* ViewportMove, lines 516-534: the WF_7 window mode returns before the clamp
MoveRepaintOnly(window, viewport, dirtyOptimisations) ==
    LET left == Max2(viewport.pos.x, 0)
        top == Max2(viewport.pos.y, 0)
        right == Min2(viewport.pos.x + viewport.width, ScreenWidth)
        bottom == Min2(viewport.pos.y + viewport.height, ScreenHeight)
    IN  /\ "WF_7" \in window.flags
        /\ (left >= right \/ top >= bottom \/ dirtyOptimisations)

\* ViewportMove: the return path taken
MovePath(coords, window, viewport, dirtyOptimisations) ==
    LET diff == MoveDiff(coords, viewport)
        moved == [viewport EXCEPT !.viewPos = coords]
        clampedX == MoveClampX(moved)
        clampedXY == MoveClampY(clampedX)
    IN  IF diff.x = 0 /\ diff.y = 0 THEN "unchanged"
        ELSE IF MoveRepaintOnly(window, moved, dirtyOptimisations) THEN "repaint"
        ELSE IF clampedX.width <= 0 THEN "abort_width"
        ELSE IF clampedXY.height <= 0 THEN "abort_height"
        ELSE IF dirtyOptimisations THEN "shift"
        ELSE "clamped"

MoveRestore_KeepsClamp(view_copy, clamped) == clamped

\* ViewportMove, lines 555, 576 and 586: *viewport = view_copy
MoveRestore(view_copy, clamped) == view_copy

\* The copy taken before line 510 stores the view position
ViewportMove_CopyBeforeStore(coords, window, viewport, dirtyOptimisations) == IF MovePath(coords, window, viewport, dirtyOptimisations) \in {"unchanged", "repaint"} THEN [viewport EXCEPT !.viewPos = coords] ELSE viewport

\* ViewportMove, lines 500-587: the Viewport when the call returns.
\* ViewportShiftPixels and ViewportRedrawAfterShift work on the clamped
\* Viewport and restore it before they return (lines 350 and 402).
ViewportMove(coords, window, viewport, dirtyOptimisations) ==
    LET path == MovePath(coords, window, viewport, dirtyOptimisations)
        view_copy == [viewport EXCEPT !.viewPos = coords]
        clampedX == MoveClampX(view_copy)
        clampedXY == MoveClampY(clampedX)
    IN  CASE path \in {"unchanged", "repaint"} -> view_copy
          [] path = "abort_width" -> MoveRestore(view_copy, clampedX)
          [] OTHER -> MoveRestore(view_copy, clampedXY)


\* A call of ViewportMove: the arguments are evaluated once, before the call;
\* the result is the viewport afterwards and the path the call took.
ViewportMoveCall(coords, window, viewport, dirtyOptimisations) ==
    CHOOSE moved \in {[viewport |-> ViewportMove(c, w, v, dirtyOptimisations),
                       path |-> MovePath(c, w, v, dirtyOptimisations)] :
                          c \in {coords}, w \in {window}, v \in {viewport}} : TRUE

(***************************************************************************)
(* The focus tracker: ViewportUpdatePosition and what it calls. The        *)
(* operators take the window and its Viewport by value and return both.    *)
(***************************************************************************)
\* The rides the guests of the model can be on: ride 1 is on track with one
\* train (entity 2), ride 2 has no track, no other ride exists.
\* GetRide: has |-> FALSE is nullptr
GetRide(id) ==
    CASE id = 1 -> [has |-> TRUE, onTrack |-> TRUE, train |-> 2, overall_view |-> XY(1, 1)]
      [] id = 2 -> [has |-> TRUE, onTrack |-> FALSE, train |-> EntityIdNull,
                    overall_view |-> XY(0, 1)]
      [] OTHER -> [has |-> FALSE, onTrack |-> FALSE, train |-> EntityIdNull,
                   overall_view |-> XY(0, 0)]

\* TileCoordsXY::ToCoordsXY().ToTileCentre()
ToTileCentre(tile) == XY(tile.x * 32 + 16, tile.y * 32 + 16)

\* GetEntity<Vehicle>(ride->vehicles[train])->GetCar(car): the id of the car
\* or EntityIdNull. A train of the model has its head as only car.
GetCarId(ride, train, car) ==
    IF train = 0 /\ car = 0 /\ GetEntity(ride.train).has
       /\ GetEntity(ride.train).value.Type = "Vehicle"
    THEN ride.train
    ELSE EntityIdNull

NoFocus == [has |-> FALSE, value |-> CoordinateFocus(XYZ(0, 0, 0), 0)]

SomeFocus(focus) == [has |-> TRUE, value |-> focus]

UndergroundGate_Always(window) == TRUE

\* ViewportSetUndergroundFlag, lines 590-611: may the window toggle the flag
UndergroundGate(window) ==
    \/ window.classification # "MainWindow"
    \/ window.viewport_smart_follow_sprite # EntityIdNull

\* ViewportSetUndergroundFlag, lines 590-611
ViewportSetUndergroundFlag(underground, window, viewport) ==
    IF UndergroundGate(window)
    THEN IF underground
         THEN [viewport EXCEPT !.flags = @ \cup {"UNDERGROUND_INSIDE"}]
         ELSE [viewport EXCEPT !.flags = @ \ {"UNDERGROUND_INSIDE"}]
    ELSE viewport

\* ViewportSetUndergroundFlag, lines 590-611: is window->Invalidate() of line
\* 609 reached
ViewportSetUndergroundFlagInvalidates(underground, window, viewport) ==
    /\ UndergroundGate(window)
    /\ IF underground
       THEN "UNDERGROUND_INSIDE" \notin viewport.flags
       ELSE "UNDERGROUND_INSIDE" \in viewport.flags

\* The null-position test of line 801 left out: every guest leaving a ride
\* counts as riding
ViewportUpdateSmartFollowGuest_AnyLeaving(window, peepId, peep) ==
    LET onRide == \/ peep.State = "OnRide"
                  \/ peep.State = "EnteringRide"
                  \/ peep.State = "LeavingRide"
        ride == GetRide(peep.CurrentRide)
        carId == IF onRide /\ ride.has /\ ride.onTrack
                 THEN GetCarId(ride, peep.CurrentTrain, peep.CurrentCar)
                 ELSE EntityIdNull
        overallFocus == carId = EntityIdNull
        xy == ToTileCentre(ride.overall_view)
    IN  IF peep.State = "Picked"
        THEN [window EXCEPT
                 !.viewport_smart_follow_sprite = EntityIdNull,
                 !.viewport_target_sprite = EntityIdNull,
                 !.focus = NoFocus]
        ELSE IF peep.x = LOCATION_NULL /\ overallFocus /\ ride.has
        THEN [window EXCEPT
                 !.viewport_target_sprite = EntityIdNull,
                 !.focus = SomeFocus(CoordinateFocus(
                               XYZ(xy.x, xy.y, TileElementHeight(xy) + 4 * 8), 0))]
        ELSE IF ~overallFocus
        THEN [window EXCEPT
                 !.viewport_target_sprite = carId,
                 !.focus = SomeFocus(EntityFocus(carId, 0))]
        ELSE [window EXCEPT
                 !.viewport_target_sprite = peepId,
                 !.focus = SomeFocus(EntityFocus(peepId, 0))]

\* ViewportUpdateSmartFollowGuest, lines 787-837
ViewportUpdateSmartFollowGuest(window, peepId, peep) ==
    LET onRide == \/ peep.State = "OnRide"
                  \/ peep.State = "EnteringRide"
                  \/ (peep.State = "LeavingRide" /\ peep.x = LOCATION_NULL)
        ride == GetRide(peep.CurrentRide)
        carId == IF onRide /\ ride.has /\ ride.onTrack
                 THEN GetCarId(ride, peep.CurrentTrain, peep.CurrentCar)
                 ELSE EntityIdNull
        overallFocus == carId = EntityIdNull
        xy == ToTileCentre(ride.overall_view)
    IN  IF peep.State = "Picked"
        THEN [window EXCEPT
                 !.viewport_smart_follow_sprite = EntityIdNull,
                 !.viewport_target_sprite = EntityIdNull,
                 !.focus = NoFocus]
        ELSE IF peep.x = LOCATION_NULL /\ overallFocus /\ ride.has
        THEN [window EXCEPT
                 !.viewport_target_sprite = EntityIdNull,
                 !.focus = SomeFocus(CoordinateFocus(
                               XYZ(xy.x, xy.y, TileElementHeight(xy) + 4 * 8), 0))]
        ELSE IF ~overallFocus
        THEN [window EXCEPT
                 !.viewport_target_sprite = carId,
                 !.focus = SomeFocus(EntityFocus(carId, 0))]
        ELSE [window EXCEPT
                 !.viewport_target_sprite = peepId,
                 !.focus = SomeFocus(EntityFocus(peepId, 0))]

\* The picked-up test of lines 841-847 left out
ViewportUpdateSmartFollowStaff_IgnoresPicked(window, peep) ==
    [window EXCEPT
        !.focus = SomeFocus(EntityFocus(window.viewport_smart_follow_sprite, 0)),
        !.viewport_target_sprite = window.viewport_smart_follow_sprite]

\* ViewportUpdateSmartFollowStaff, lines 839-851
ViewportUpdateSmartFollowStaff(window, peep) ==
    IF peep.State = "Picked"
    THEN [window EXCEPT
             !.viewport_smart_follow_sprite = EntityIdNull,
             !.viewport_target_sprite = EntityIdNull,
             !.focus = NoFocus]
    ELSE [window EXCEPT
             !.focus = SomeFocus(EntityFocus(window.viewport_smart_follow_sprite, 0)),
             !.viewport_target_sprite = window.viewport_smart_follow_sprite]

\* ViewportUpdateSmartFollowVehicle, lines 853-857
ViewportUpdateSmartFollowVehicle(window) ==
    [window EXCEPT
        !.focus = SomeFocus(EntityFocus(window.viewport_smart_follow_sprite, 0)),
        !.viewport_target_sprite = window.viewport_smart_follow_sprite]

\* The second assignment of lines 749-750 left out
ViewportUpdateSmartFollowEntity_KeepsTarget(window) ==
    LET entity == GetEntity(window.viewport_smart_follow_sprite)
    IN  IF ~entity.has \/ entity.value.Type = "Null"
        THEN [window EXCEPT !.viewport_smart_follow_sprite = EntityIdNull]
        ELSE [window EXCEPT
                 !.focus = SomeFocus(EntityFocus(window.viewport_smart_follow_sprite, 0)),
                 !.viewport_target_sprite = window.viewport_smart_follow_sprite]

\* ViewportUpdateSmartFollowEntity, lines 744-785
ViewportUpdateSmartFollowEntity(window) ==
    LET entity == GetEntity(window.viewport_smart_follow_sprite)
    IN  IF ~entity.has \/ entity.value.Type = "Null"
        THEN [window EXCEPT
                 !.viewport_smart_follow_sprite = EntityIdNull,
                 !.viewport_target_sprite = EntityIdNull]
        ELSE CASE entity.value.Type = "Vehicle" ->
                     ViewportUpdateSmartFollowVehicle(window)
               [] entity.value.Type = "Guest" ->
                     ViewportUpdateSmartFollowGuest(
                         window, window.viewport_smart_follow_sprite, entity.value)
               [] entity.value.Type = "Staff" ->
                     ViewportUpdateSmartFollowStaff(window, entity.value)
               [] OTHER ->
                     [window EXCEPT
                         !.focus = SomeFocus(
                             EntityFocus(window.viewport_smart_follow_sprite, 0)),
                         !.viewport_target_sprite = window.viewport_smart_follow_sprite]

\* The nullptr test of lines 722-725 made after the underground toggle,
\* which then works on an empty entity
ViewportUpdateFollowSprite_TogglesFirst(window, viewport, titleDemo, dirtyOptimisations) ==
    LET sprite == GetEntity(window.viewport_target_sprite)
        height == TileElementHeight(XY(sprite.value.x, sprite.value.y)) - 16
        flagged == IF titleDemo THEN viewport
                   ELSE ViewportSetUndergroundFlag(sprite.value.z < height,
                                                   window, viewport)
        centreLoc == centre_2d_coordinates(
                         XYZ(sprite.value.x, sprite.value.y, sprite.value.z), flagged)
    IN  IF sprite.has /\ centreLoc.has
        THEN LET moved == ViewportMoveCall(centreLoc.value, window, flagged,
                                           dirtyOptimisations)
             IN  [window |-> [window EXCEPT !.savedViewPos = centreLoc.value],
                  viewport |-> moved.viewport,
                  move |-> moved.path]
        ELSE [window |-> window, viewport |-> flagged, move |-> "none"]

\* ViewportUpdateFollowSprite, lines 718-742
ViewportUpdateFollowSprite(window, viewport, titleDemo, dirtyOptimisations) ==
    LET sprite == GetEntity(window.viewport_target_sprite)
        height == TileElementHeight(XY(sprite.value.x, sprite.value.y)) - 16
        flagged == IF titleDemo THEN viewport
                   ELSE ViewportSetUndergroundFlag(sprite.value.z < height,
                                                   window, viewport)
        centreLoc == centre_2d_coordinates(
                         XYZ(sprite.value.x, sprite.value.y, sprite.value.z), flagged)
    IN  IF ~sprite.has
        THEN [window |-> window, viewport |-> viewport, move |-> "none"]
        ELSE IF centreLoc.has
        THEN LET moved == ViewportMoveCall(centreLoc.value, window, flagged,
                                           dirtyOptimisations)
             IN  [window |-> [window EXCEPT !.savedViewPos = centreLoc.value],
                  viewport |-> moved.viewport,
                  move |-> moved.path]
        ELSE [window |-> window, viewport |-> flagged, move |-> "none"]

\* ViewportUpdatePosition, lines 641-667: the map coordinate clamped to the map
ClampToMap(mapCoord) ==
    XY(Min2(Max2(mapCoord.x, kMapMinimumXY), GetMapSizeMinus2.x),
       Min2(Max2(mapCoord.y, kMapMinimumXY), GetMapSizeMinus2.y))

\* ViewportUpdatePosition, lines 638-676: savedViewPos after the map-edge clamp
SavedViewPosAtMapEdge(window, viewport) ==
    LET viewportMidPoint ==
            XY(window.savedViewPos.x + TruncDiv(viewport.view_width, 2),
               window.savedViewPos.y + TruncDiv(viewport.view_height, 2))
        mapCoord == ViewportPosToMapPos(viewportMidPoint, 0, viewport.rotation)
        clamped == ClampToMap(mapCoord)
        centreLoc == centre_2d_coordinates(XYZ(clamped.x, clamped.y, 0), viewport)
    IN  IF clamped # mapCoord /\ centreLoc.has
        THEN centreLoc.value
        ELSE window.savedViewPos

ScrollStep_RoundsDown(delta) ==
    IF delta < 0 THEN -TruncDiv(-delta, 8) ELSE TruncDiv(delta, 8)

\* ViewportUpdatePosition, lines 683-710: the signed step along one axis
ScrollStep(delta) ==
    IF delta < 0 THEN -TruncDiv(-delta + 7, 8) ELSE TruncDiv(delta + 7, 8)

\* ViewportUpdatePosition, lines 678-715: the step towards window.savedViewPos
\* and the move
ViewportUpdateScroll(window, viewport, dirtyOptimisations) ==
    LET scrolling == "WF_SCROLLING_TO_LOCATION" \in window.flags
        stepX == ScrollStep(window.savedViewPos.x - viewport.viewPos.x)
        stepY == ScrollStep(window.savedViewPos.y - viewport.viewPos.y)
        windowCoords == IF scrolling
                        THEN XY(stepX + viewport.viewPos.x, stepY + viewport.viewPos.y)
                        ELSE window.savedViewPos
        window1 == [window EXCEPT
                       !.flags = IF scrolling /\ stepX = 0 /\ stepY = 0
                                 THEN @ \ {"WF_SCROLLING_TO_LOCATION"}
                                 ELSE @]
        moved == ViewportMoveCall(windowCoords, window1, viewport, dirtyOptimisations)
    IN  [window |-> window1, viewport |-> moved.viewport, move |-> moved.path]

\* ViewportUpdatePosition, lines 636-715: the fixed-coordinate step. The
\* underground flag and the saved position are settled before the scroll
\* step reads them.
ViewportUpdateFixed(window, viewport, dirtyOptimisations) ==
    LET flagged == ViewportSetUndergroundFlag(FALSE, window, viewport)
        saved == SavedViewPosAtMapEdge(window, flagged)
    IN  CHOOSE r \in {ViewportUpdateScroll(w, v, dirtyOptimisations) :
                         w \in {[window EXCEPT !.savedViewPos = saved]},
                         v \in {flagged}} : TRUE

\* The return of line 633 left out: the fixed-coordinate step follows the
\* sprite step
ViewportUpdatePosition_NoReturn(window, viewport, titleDemo, dirtyOptimisations) ==
    LET window1 == IF window.viewport_smart_follow_sprite # EntityIdNull
                   THEN ViewportUpdateSmartFollowEntity(window)
                   ELSE window
    IN  IF window1.viewport_target_sprite # EntityIdNull
        THEN CHOOSE r \in {ViewportUpdateFixed(f.window, f.viewport, dirtyOptimisations) :
                              f \in {ViewportUpdateFollowSprite(window1, viewport, titleDemo,
                                                                dirtyOptimisations)}} : TRUE
        ELSE ViewportUpdateFixed(window1, viewport, dirtyOptimisations)

\* ViewportUpdatePosition, lines 617-716, for a window that has a viewport.
\* window->OnResize() belongs to the window class and is not modelled.
ViewportUpdatePosition(window, viewport, titleDemo, dirtyOptimisations) ==
    LET window1 == IF window.viewport_smart_follow_sprite # EntityIdNull
                   THEN ViewportUpdateSmartFollowEntity(window)
                   ELSE window
    IN  IF window1.viewport_target_sprite # EntityIdNull
        THEN ViewportUpdateFollowSprite(window1, viewport, titleDemo,
                                        dirtyOptimisations)
        ELSE ViewportUpdateFixed(window1, viewport, dirtyOptimisations)


\* ViewportUpdatePosition, lines 617-716: does the call of
\* ViewportSetUndergroundFlag that the tick makes (line 731 or line 636)
\* invalidate the window
ViewportUpdatePositionInvalidates(window, viewport, titleDemo) ==
    LET window1 == IF window.viewport_smart_follow_sprite # EntityIdNull
                   THEN ViewportUpdateSmartFollowEntity(window)
                   ELSE window
        sprite == GetEntity(window1.viewport_target_sprite)
        height == TileElementHeight(XY(sprite.value.x, sprite.value.y)) - 16
    IN  IF window1.viewport_target_sprite # EntityIdNull
        THEN /\ sprite.has
             /\ ~titleDemo
             /\ ViewportSetUndergroundFlagInvalidates(sprite.value.z < height,
                                                      window1, viewport)
        ELSE ViewportSetUndergroundFlagInvalidates(FALSE, window1, viewport)

\* ViewportAdjustForMapHeight, lines 299-326: rounds i..5 of the loop
RECURSIVE AdjustForMapHeightFrom(_, _, _, _, _)
AdjustForMapHeightFrom(startCoords, rotation, height, pos, i) ==
    IF i >= 6
    THEN XYZ(pos.x, pos.y, height)
    ELSE LET p == ViewportPosToMapPos(startCoords, height, rotation)
             h == TileElementHeight(p)
             corr == CASE rotation = 0 -> XY(-1, -1)
                       [] rotation = 1 -> XY(1, -1)
                       [] rotation = 2 -> XY(1, 1)
                       [] rotation = 3 -> XY(-1, 1)
             q == IF p.x > GetMapSizeMinus2.x /\ p.y > GetMapSizeMinus2.y
                  THEN XY(p.x + corr.x * h, p.y + corr.y * h)
                  ELSE p
         IN  AdjustForMapHeightFrom(startCoords, rotation, h, q, i + 1)

ViewportAdjustForMapHeight(startCoords, rotation) ==
    AdjustForMapHeightFrom(startCoords, rotation, 0, XY(0, 0), 0)

\* The "& 3" of line 886 left out
ViewportRotateSingleInternal_Unmasked(window, viewport, direction, probe) == [window |-> window, viewport |-> [viewport EXCEPT !.rotation = @ + direction]]

\* ViewportRotateSingleInternal, lines 859-899. probe is what ScreenGetMapXY
\* returns for the middle of the viewport: has (a map position was found),
\* same (in this viewport) and the position.
ViewportRotateSingleInternal(window, viewport, direction, probe) ==
    LET viewPos == XY(ShiftRight(viewport.view_width, 1) + viewport.viewPos.x,
                      ShiftRight(viewport.view_height, 1) + viewport.viewPos.y)
        coords == IF ~probe.has \/ ~probe.same
                  THEN ViewportAdjustForMapHeight(viewPos, viewport.rotation)
                  ELSE XYZ(probe.pos.x, probe.pos.y, TileElementHeight(probe.pos))
        rotated == [viewport EXCEPT !.rotation = (@ + direction) % 4]
        centreLoc == centre_2d_coordinates(coords, rotated)
    IN  IF centreLoc.has
        THEN [window |-> [window EXCEPT !.savedViewPos = centreLoc.value],
              viewport |-> [rotated EXCEPT !.viewPos = centreLoc.value]]
        ELSE [window |-> window, viewport |-> rotated]


(***************************************************************************)
(* Picking: the sprite images, the scene graph of a paint session and the  *)
(* scan of SetInteractionInfoFromPaintSession.                             *)
(***************************************************************************)
\* ViewportInteractionItem in declaration order
InteractionItems ==
    <<"None", "Terrain", "Entity", "Ride", "Water", "Scenery", "Footpath",
      "PathAddition", "ParkEntrance", "Wall", "LargeScenery", "Label", "Banner">>

ItemOrdinal(item) == CHOOSE i \in 1..Len(InteractionItems) : InteractionItems[i] = item

\* One run of an RLE row: numPixels with bit 0x80 as last, and pixelRunStart
Run(pixelRunStart, numPixels, last) ==
    [pixelRunStart |-> pixelRunStart, numPixels |-> numPixels, last |-> last]

G1Element(width, height, x_offset, y_offset, flags, zoomed_offset, rows, pixels) ==
    [width |-> width, height |-> height, x_offset |-> x_offset, y_offset |-> y_offset,
     flags |-> flags, zoomed_offset |-> zoomed_offset, rows |-> rows, pixels |-> pixels]

\* The sprite table behind GfxGetG1Element.
\*   10: RLE, 3 x 2, row 0 opaque at x = 0 and x = 2, row 1 at x = 1..2
\*   11: bitmap with transparency, 2 x 2
\*   12: bitmap without the transparency flag
\*   13: RLE with a zoomed sprite 3 entries below it, opaque at (0, 0) only
\*   14: RLE that is not drawn when zoomed out
G1Elements ==
    [i \in 10..14 |->
        CASE i = 10 -> G1Element(3, 2, 0, 0, {"RLE_COMPRESSION"}, 0,
                                 <<<<Run(0, 1, FALSE), Run(2, 1, TRUE)>>,
                                   <<Run(1, 2, TRUE)>>>>, <<>>)
          [] i = 11 -> G1Element(2, 2, 0, 0, {"HAS_TRANSPARENCY"}, 0, <<>>,
                                 <<1, 2, 0, 1>>)
          [] i = 12 -> G1Element(2, 2, 0, 0, {}, 0, <<>>, <<1, 1, 1, 1>>)
          [] i = 13 -> G1Element(2, 1, -1, 0, {"RLE_COMPRESSION", "HAS_ZOOM_SPRITE"}, 3,
                                 <<<<Run(0, 1, TRUE)>>>>, <<>>)
          [] i = 14 -> G1Element(2, 1, 0, 0, {"RLE_COMPRESSION", "NO_ZOOM_DRAW"}, 0,
                                 <<<<Run(0, 2, TRUE)>>>>, <<>>)]

\* GfxGetG1Element: has |-> FALSE is nullptr
GfxGetG1Element(index) ==
    IF index \in DOMAIN G1Elements
    THEN [has |-> TRUE, value |-> G1Elements[index]]
    ELSE [has |-> FALSE, value |-> G1Element(0, 0, 0, 0, {}, 0, <<>>, <<>>)]

ImageId(index, hasPrimary, hasSecondary, isRemap, colour) ==
    [index |-> index, HasPrimary |-> hasPrimary, HasSecondary |-> hasSecondary,
     IsRemap |-> isRemap, colour |-> colour]

PlainImage(index) == ImageId(index, FALSE, FALSE, FALSE, 0)

\* PaletteMap::GetDefault: every index maps to itself
PaletteMapDefault == [i \in 0..2 |-> i]

\* GetPaletteMapForColour: colour 1 has a map that sends index 1 to 0
GetPaletteMapForColour(paletteIndex) ==
    IF paletteIndex = 1
    THEN [has |-> TRUE, value |-> [i \in 0..2 |-> IF i = 1 THEN 0 ELSE i]]
    ELSE [has |-> FALSE, value |-> PaletteMapDefault]

\* IsPixelPresentBMP, lines 1581-1603
IsPixelPresentBMP(imageType, g1, x, y, paletteMap) ==
    LET index == g1.pixels[(y * g1.width) + x + 1]
    IN  IF "HAS_TRANSPARENCY" \notin g1.flags THEN FALSE
        ELSE IF imageType = "REMAP" THEN paletteMap[index] # 0
        ELSE IF imageType = "TRANSPARENT" THEN FALSE
        ELSE index # 0

\* IsPixelPresentRLE, lines 1608-1627: the runs of row y from run i on
RECURSIVE IsPixelPresentRLEFrom(_, _, _)
IsPixelPresentRLEFrom(runs, i, x) ==
    IF runs[i].pixelRunStart <= x /\ x < runs[i].pixelRunStart + runs[i].numPixels
    THEN TRUE
    ELSE IF runs[i].last THEN FALSE
    ELSE IsPixelPresentRLEFrom(runs, i + 1, x)

IsPixelPresentRLE(data, x, y) == IsPixelPresentRLEFrom(data[y + 1], 1, x)

\* IsSpriteInteractedWithPaletteSet, lines 1674-1690: the pixel of the sprite
\* under the interaction point
SpritePixelPresent(g1, point, paletteMap, imageType) ==
    IF point.x < 0 \/ point.y < 0 \/ point.x >= g1.width \/ point.y >= g1.height
    THEN FALSE
    ELSE IF "RLE_COMPRESSION" \in g1.flags
    THEN IsPixelPresentRLE(g1.rows, point.x, point.y)
    ELSE IF "G1_FLAG_1" \notin g1.flags
    THEN IsPixelPresentBMP(imageType, g1, point.x, point.y, paletteMap)
    ELSE FALSE

\* IsSpriteInteractedWithPaletteSet, lines 1670-1672: origin += offset of the
\* sprite; interactionPoint -= origin
SpriteInteractionPoint(g1, interactionPoint, origin) ==
    XY(interactionPoint.x - (origin.x + g1.x_offset),
       interactionPoint.y - (origin.y + g1.y_offset))

\* IsSpriteInteractedWithPaletteSet, lines 1654-1690: the walk down the zoomed
\* sprites, then the pixel test
RECURSIVE ZoomedSpritePresent(_, _, _, _, _, _, _)
RECURSIVE ZoomedSpriteNext(_, _, _, _, _, _, _)
ZoomedSpritePresent(index, g1, zoomLevel, interactionPoint, origin, paletteMap, imageType) ==
    IF "HAS_ZOOM_SPRITE" \in g1.flags /\ zoomLevel > 0
    THEN ZoomedSpriteNext(index - g1.zoomed_offset,
                          GfxGetG1Element(index - g1.zoomed_offset), zoomLevel,
                          interactionPoint, origin, paletteMap, imageType)
    ELSE SpritePixelPresent(g1, SpriteInteractionPoint(g1, interactionPoint, origin),
                            paletteMap, imageType)

\* lines 1656-1666: one round of the loop, g1 being the zoomed sprite found
ZoomedSpriteNext(index, g1, zoomLevel, interactionPoint, origin, paletteMap, imageType) ==
    IF ~g1.has \/ "NO_ZOOM_DRAW" \in g1.value.flags
    THEN FALSE
    ELSE ZoomedSpritePresent(index, g1.value, zoomLevel - 1,
                             XY(ShiftRight(interactionPoint.x, 1),
                                ShiftRight(interactionPoint.y, 1)),
                             XY(ShiftRight(origin.x, 1), ShiftRight(origin.y, 1)),
                             paletteMap, imageType)

\* IsSpriteInteractedWithPaletteSet, lines 1638-1690, g1 being the sprite of
\* imageId
SpritePresent(g1, dpi, imageId, coords, paletteMap, imageType) ==
    IF ~g1.has THEN FALSE
    ELSE IF dpi.zoom_level > 0 /\ "NO_ZOOM_DRAW" \in g1.value.flags THEN FALSE
    ELSE ZoomedSpritePresent(imageId.index, g1.value, dpi.zoom_level,
                             XY(dpi.x, dpi.y), coords, paletteMap, imageType)

\* IsSpriteInteractedWithPaletteSet, lines 1632-1691
IsSpriteInteractedWithPaletteSet(dpi, imageId, coords, paletteMap, imageType) ==
    SpritePresent(GfxGetG1Element(imageId.index), dpi, imageId, coords, paletteMap,
                  imageType)

\* IsSpriteInteractedWith, lines 1698-1726
IsSpriteInteractedWith(dpi, imageId, coords) ==
    LET remapped == imageId.HasPrimary \/ imageId.IsRemap
        pm == GetPaletteMapForColour(imageId.colour)
        paletteMap == IF remapped /\ pm.has THEN pm.value ELSE PaletteMapDefault
    IN  IsSpriteInteractedWithPaletteSet(dpi, imageId, coords, paletteMap,
                                         IF remapped THEN "REMAP" ELSE "DEFAULT")

\* PSSpriteTypeIsInFilter, lines 1564-1576; the filter is the set of the
\* categories whose bit is set
PSSpriteTypeIsInFilter(ps, filter) ==
    /\ ps.InteractionItem # "None"
    /\ ps.InteractionItem # "Label"
    /\ ItemOrdinal(ps.InteractionItem) <= ItemOrdinal("Banner")
    /\ ps.InteractionItem \in filter

IsCursorIdVegetation(cursor) == cursor \in {"TreeDown", "FlowerDown"}

\* IsTileElementVegetation, lines 1421-1463
IsTileElementVegetation(tileElement) ==
    CASE tileElement.type = "SmallScenery" ->
            tileElement.entry.has
            /\ (tileElement.entry.isTree \/ IsCursorIdVegetation(tileElement.entry.tool_id))
      [] tileElement.type \in {"LargeScenery", "Wall"} ->
            tileElement.entry.has /\ IsCursorIdVegetation(tileElement.entry.tool_id)
      [] OTHER -> FALSE

HiddenOrPartial_AlwaysHidden(viewFlags, invisible) == "Hidden"

HiddenOrPartial(viewFlags, invisible) ==
    IF invisible \in viewFlags THEN "Hidden" ELSE "Partial"

\* GetPaintStructVisibility, lines 1465-1559
GetPaintStructVisibility(ps, viewFlags) ==
    CASE ps.InteractionItem = "Entity" /\ ps.Entity.has ->
            (CASE ps.Entity.Type = "Vehicle" ->
                     IF "HIDE_VEHICLES" \in viewFlags
                     THEN HiddenOrPartial(viewFlags, "INVISIBLE_VEHICLES")
                     ELSE IF "HIDE_RIDES" \in viewFlags /\ ps.Entity.isVehicle
                             /\ ps.Entity.rideWithoutTrack
                     THEN HiddenOrPartial(viewFlags, "INVISIBLE_RIDES")
                     ELSE "Visible"
               [] ps.Entity.Type = "Guest" ->
                     IF "HIDE_GUESTS" \in viewFlags THEN "Hidden" ELSE "Visible"
               [] ps.Entity.Type = "Staff" ->
                     IF "HIDE_STAFF" \in viewFlags THEN "Hidden" ELSE "Visible"
               [] OTHER -> "Visible")
      [] ps.InteractionItem = "Ride" ->
            IF "HIDE_RIDES" \in viewFlags
            THEN HiddenOrPartial(viewFlags, "INVISIBLE_RIDES")
            ELSE "Visible"
      [] ps.InteractionItem \in {"Footpath", "PathAddition", "Banner"} ->
            IF "HIDE_PATHS" \in viewFlags
            THEN HiddenOrPartial(viewFlags, "INVISIBLE_PATHS")
            ELSE "Visible"
      [] ps.InteractionItem \in {"Scenery", "LargeScenery", "Wall"} ->
            IF ps.Element.has /\ IsTileElementVegetation(ps.Element)
                  /\ "HIDE_VEGETATION" \in viewFlags
            THEN HiddenOrPartial(viewFlags, "INVISIBLE_VEGETATION")
            ELSE IF ps.Element.has /\ ~IsTileElementVegetation(ps.Element)
                  /\ "HIDE_SCENERY" \in viewFlags
            THEN HiddenOrPartial(viewFlags, "INVISIBLE_SCENERY")
            ELSE IF ps.InteractionItem = "Wall" /\ "UNDERGROUND_INSIDE" \in viewFlags
            THEN "Partial"
            ELSE "Visible"
      [] OTHER -> "Visible"

\* A PaintStruct pointer is the place of the node in the scene graph: the
\* quadrant entry q and the place c in that entry's Children chain.
PsPtr(q, c) == <<q, c>>

PsNull == <<0, 0>>

PsAt(session, ptr) == session.PaintHead[ptr[1]][ptr[2]]

\* InteractionInfo{}
NoInfo ==
    [Loc |-> XY(0, 0), interactionType |-> "None",
     Element |-> [has |-> FALSE], Entity |-> [has |-> FALSE]]

\* InteractionInfo(ps)
InteractionInfo(ps) ==
    [Loc |-> ps.MapPos, interactionType |-> ps.InteractionItem,
     Element |-> [has |-> ps.Element.has], Entity |-> [has |-> ps.Entity.has]]

PsKept_AnyVisible(ps, viewFlags, filter) == GetPaintStructVisibility(ps, viewFlags) = "Visible"

\* lines 1748 and 1762: the node passes the filter and is fully visible
PsKept(ps, viewFlags, filter) ==
    PSSpriteTypeIsInFilter(ps, filter) /\ GetPaintStructVisibility(ps, viewFlags) = "Visible"

\* line 1746: the node's own image is opaque at the picked pixel
PsOwnHit(session, ps) == IsSpriteInteractedWith(session.DPI, ps.image_id, ps.ScreenPos)

\* line 1760: attached image i of the node is opaque at the picked pixel
PsAttachedHit(session, ps, i) ==
    IsSpriteInteractedWith(session.DPI, ps.Attached[i].image_id,
                           XY(ps.ScreenPos.x + ps.Attached[i].RelativePos.x,
                              ps.ScreenPos.y + ps.Attached[i].RelativePos.y))

ScanKeep_FirstWins(found, ptr) == IF found = PsNull THEN ptr ELSE found

\* lines 1750 and 1764: info = { ps }
ScanKeep(found, ptr) == ptr

\* lines 1743-1754: the walk down the Children chain of quadrant entry q from
\* place c on; found is the node info was last built from
RECURSIVE ScanChildren(_, _, _, _, _, _)
ScanChildren(session, viewFlags, filter, q, c, found) ==
    IF c > Len(session.PaintHead[q])
    THEN found
    ELSE LET ps == PsAt(session, PsPtr(q, c))
             kept == IF PsOwnHit(session, ps) /\ PsKept(ps, viewFlags, filter)
                     THEN ScanKeep(found, PsPtr(q, c))
                     ELSE found
         IN  ScanChildren(session, viewFlags, filter, q, c + 1, kept)

\* lines 1758-1767: the attached images of ps, which after the walk is the
\* last node of the chain
RECURSIVE ScanAttached(_, _, _, _, _, _)
ScanAttached(session, viewFlags, filter, ptr, i, found) ==
    LET ps == PsAt(session, ptr)
    IN  IF i > Len(ps.Attached)
        THEN found
        ELSE ScanAttached(session, viewFlags, filter, ptr, i + 1,
                          IF PsAttachedHit(session, ps, i) /\ PsKept(ps, viewFlags, filter)
                          THEN ScanKeep(found, ptr)
                          ELSE found)

\* lines 1738-1771: the walk down the quadrant chain from entry q on
RECURSIVE ScanQuadrants(_, _, _, _, _)
ScanQuadrants(session, viewFlags, filter, q, found) ==
    IF q > Len(session.PaintHead)
    THEN found
    ELSE LET children == ScanChildren(session, viewFlags, filter, q, 1, found)
             last == PsPtr(q, Len(session.PaintHead[q]))
             attached == ScanAttached(session, viewFlags, filter, last, 1, children)
         IN  ScanQuadrants(session, viewFlags, filter, q + 1, attached)

\* SetInteractionInfoFromPaintSession, lines 1732-1773: the node the returned
\* info was built from (PsNull for none) and the info
SetInteractionInfoFromPaintSession(session, viewFlags, filter) ==
    LET found == ScanQuadrants(session, viewFlags, filter, 1, PsNull)
    IN  [ps |-> found,
         info |-> IF found = PsNull THEN NoInfo ELSE InteractionInfo(PsAt(session, found))]

(***************************************************************************)
(* ViewportPaint: the worker pool, the paint sessions and the locals.      *)
(***************************************************************************)
\* Threads of the JobPool.
NumWorkers == 2

\* _paintJobs == nullptr
NoPool == [exists |-> FALSE, queue |-> <<>>, running |-> {}]

\* std::make_unique<JobPool>()
NewPool == [exists |-> TRUE, queue |-> <<>>, running |-> {}]

\* JobPool::Join returns once no task is queued or running.
PoolIdle == paintJobs.queue = <<>> /\ paintJobs.running = {}

Floor2(v, n) == v - (v % n)

DPI(x, width, bits, pitch, zoom) ==
    [x |-> x, width |-> width, bits |-> bits, pitch |-> pitch, zoom_level |-> zoom]

\* ViewportPaint at rest: no call in progress.
PaintIdle ==
    [pc |-> "idle", useMultithreading |-> FALSE, useParallelDrawing |-> FALSE,
     engineParallel |-> FALSE, dpi1 |-> DPI(0, 0, 0, 0, 0), x |-> 0,
     rightBorder |-> 0, idx |-> 0, calls |-> 0, nullPoolUse |-> FALSE]

\* PaintSessionAlloc(dpi1, viewFlags, rotation): a session holding a copy of dpi1
PaintSessionAlloc(dpi1) ==
    [DPI |-> dpi1, fill |-> "none", fillBy |-> "none",
     raster |-> "none", rasterBy |-> "none", freed |-> 0]

UseParallelDrawing_IgnoresEngine(useMultithreading, engineParallel) ==
    useMultithreading

\* ViewportPaint, lines 1074-1078
UseParallelDrawing(useMultithreading, engineParallel) ==
    useMultithreading /\ engineParallel

\* ViewportPaint, lines 1065-1072: _paintJobs after the setting is sampled
PoolAfterSample(useMultithreading) ==
    IF useMultithreading /\ ~paintJobs.exists THEN NewPool
    ELSE IF ~useMultithreading /\ paintJobs.exists THEN NoPool
    ELSE paintJobs

\* ViewportPaint, lines 1019-1078. x0 and width are dpi1.x and dpi1.width, the
\* masked left edge and width of the rectangle; bits is counted from dpi1.bits
\* and pitch from the parent's stride (dpi.width + dpi.pitch).
ViewportPaintBegin(x0, width, zoom, inhibited, engineParallel) ==
    /\ paint.pc = "idle"
    /\ IF inhibited
       THEN UNCHANGED paintVars
       ELSE LET useMultithreading == cfgMultiThreading
            IN  /\ paintColumns' = <<>>
                /\ sessions' = <<>>
                /\ paintJobs' = PoolAfterSample(useMultithreading)
                /\ paint' = [paint EXCEPT
                       !.pc = "generate",
                       !.useMultithreading = useMultithreading,
                       !.useParallelDrawing =
                           UseParallelDrawing(useMultithreading, engineParallel),
                       !.engineParallel = engineParallel,
                       !.dpi1 = DPI(x0, width, 0, -ZoomApplyInversedTo(zoom, width), zoom),
                       !.x = Floor2(x0, 32),
                       !.rightBorder = x0 + width,
                       !.idx = 0,
                       !.calls = 1]
                /\ UNCHANGED cfgMultiThreading
    /\ UNCHANGED <<registryVars, pickVars, damageVars, calcVars>>

ColumnDPI_NoRightTrim(dpi1, x) ==
    LET leftPitch == x - dpi1.x
    IN  IF x >= dpi1.x
        THEN [dpi1 EXCEPT !.width = @ - leftPitch, !.x = x]
        ELSE dpi1

\* ViewportPaint, lines 1086-1103: the session's DPI trimmed to column x
ColumnDPI(dpi1, x) ==
    LET leftPitch == x - dpi1.x
        a == IF x >= dpi1.x
             THEN [dpi1 EXCEPT
                      !.width = @ - leftPitch,
                      !.bits = @ + ZoomApplyInversedTo(dpi1.zoom_level, leftPitch),
                      !.pitch = @ + ZoomApplyInversedTo(dpi1.zoom_level, leftPitch),
                      !.x = x]
             ELSE dpi1
        paintRight0 == a.x + a.width
        rightPitch == paintRight0 - x - 32
        paintRight == IF paintRight0 >= x + 32 THEN paintRight0 - rightPitch
                      ELSE paintRight0
        b == IF paintRight0 >= x + 32
             THEN [a EXCEPT !.pitch = @ + ZoomApplyInversedTo(dpi1.zoom_level, rightPitch)]
             ELSE a
    IN  [b EXCEPT !.width = paintRight - b.x]

\* JobPool::AddTask. Through a null _paintJobs the call is undefined; the
\* model records it in paint.nullPoolUse and drops the task.
AddTask(task) ==
    IF paintJobs.exists
    THEN [paintJobs EXCEPT !.queue = Append(@, task)]
    ELSE paintJobs

GenerateUsesPool_RereadsSetting == cfgMultiThreading

\* ViewportPaint, line 1105
GenerateUsesPool == paint.useMultithreading

\* ViewportPaint, lines 1081-1113: one iteration of the generate loop
ViewportPaintGenerateColumn ==
    /\ paint.pc = "generate"
    /\ paint.x < paint.rightBorder
    /\ LET session == Len(sessions) + 1
           alloc == [PaintSessionAlloc(paint.dpi1) EXCEPT
                        !.DPI = ColumnDPI(paint.dpi1, paint.x)]
       IN  /\ paintColumns' = Append(paintColumns, session)
           /\ IF GenerateUsesPool
              THEN /\ sessions' = Append(sessions, [alloc EXCEPT !.fillBy = "pool"])
                   /\ paintJobs' = AddTask([kind |-> "fill", session |-> session])
                   /\ paint' = [paint EXCEPT
                                   !.x = @ + 32,
                                   !.nullPoolUse = @ \/ ~paintJobs.exists]
              ELSE /\ sessions' = Append(sessions,
                                         [alloc EXCEPT !.fillBy = "inline",
                                                       !.fill = "done"])
                   /\ paintJobs' = paintJobs
                   /\ paint' = [paint EXCEPT !.x = @ + 32]
    /\ UNCHANGED <<cfgMultiThreading, registryVars, pickVars, damageVars, calcVars>>

GenerateJoined_NoJoin == TRUE

\* ViewportPaint, lines 1115-1118: _paintJobs->Join() after the generate loop
GenerateJoined == paint.useMultithreading => PoolIdle

\* ViewportPaint, lines 1081 and 1115-1118: the generate loop ends and is joined
ViewportPaintJoinGenerate ==
    /\ paint.pc = "generate"
    /\ paint.x >= paint.rightBorder
    /\ GenerateJoined
    /\ paint' = [paint EXCEPT
                    !.pc = "paint", !.idx = 1,
                    !.nullPoolUse = @ \/ (paint.useMultithreading /\ ~paintJobs.exists)]
    /\ UNCHANGED <<cfgMultiThreading, paintJobs, paintColumns, sessions,
                   registryVars, pickVars, damageVars, calcVars>>

\* ViewportPaint, lines 1121-1131: one iteration of the paint loop
ViewportPaintColumnStep ==
    /\ paint.pc = "paint"
    /\ paint.idx <= Len(paintColumns)
    /\ LET session == paintColumns[paint.idx]
       IN  IF paint.useParallelDrawing
           THEN /\ sessions' = [sessions EXCEPT ![session].rasterBy = "pool"]
                /\ paintJobs' = AddTask([kind |-> "paint", session |-> session])
                /\ paint' = [paint EXCEPT
                                !.idx = @ + 1,
                                !.nullPoolUse = @ \/ ~paintJobs.exists]
           ELSE /\ sessions' = [sessions EXCEPT ![session].rasterBy = "inline",
                                                ![session].raster = "done"]
                /\ paintJobs' = paintJobs
                /\ paint' = [paint EXCEPT !.idx = @ + 1]
    /\ UNCHANGED <<cfgMultiThreading, paintColumns, registryVars, pickVars, damageVars, calcVars>>

PaintJoined_NoJoin == TRUE

\* ViewportPaint, lines 1132-1135: _paintJobs->Join() after the paint loop
PaintJoined == paint.useParallelDrawing => PoolIdle

\* ViewportPaint, lines 1121 and 1132-1135: the paint loop ends and is joined
ViewportPaintJoinPaint ==
    /\ paint.pc = "paint"
    /\ paint.idx > Len(paintColumns)
    /\ PaintJoined
    /\ paint' = [paint EXCEPT !.pc = "release", !.idx = 1]
    /\ UNCHANGED <<cfgMultiThreading, paintJobs, paintColumns, sessions,
                   registryVars, pickVars, damageVars, calcVars>>

\* ViewportPaint, lines 1138-1141: one iteration of the release loop
ViewportPaintFree ==
    /\ paint.pc = "release"
    /\ paint.idx <= Len(paintColumns)
    /\ sessions' = [sessions EXCEPT ![paintColumns[paint.idx]].freed = @ + 1]
    /\ paint' = [paint EXCEPT !.idx = @ + 1]
    /\ UNCHANGED <<cfgMultiThreading, paintJobs, paintColumns, registryVars, pickVars, damageVars, calcVars>>

\* ViewportPaint, line 1142: the call returns
ViewportPaintReturn ==
    /\ paint.pc = "release"
    /\ paint.idx > Len(paintColumns)
    /\ paint' = [paint EXCEPT !.pc = "idle"]
    /\ UNCHANGED <<cfgMultiThreading, paintJobs, paintColumns, sessions,
                   registryVars, pickVars, damageVars, calcVars>>

\* A pool thread takes the task at the head of the queue and starts it:
\* ViewportFillColumn or ViewportPaintColumn on the task's session.
JobPoolStartTask ==
    /\ paintJobs.exists
    /\ paintJobs.queue # <<>>
    /\ Cardinality(paintJobs.running) < NumWorkers
    /\ LET task == Head(paintJobs.queue)
       IN  /\ paintJobs' = [paintJobs EXCEPT !.queue = Tail(@),
                                             !.running = @ \cup {task}]
           /\ sessions' = IF task.kind = "fill"
                          THEN [sessions EXCEPT ![task.session].fill = "running"]
                          ELSE [sessions EXCEPT ![task.session].raster = "running"]
    /\ UNCHANGED <<cfgMultiThreading, paintColumns, paint, registryVars, pickVars, damageVars, calcVars>>

\* A pool thread finishes the task it runs.
JobPoolFinishTask ==
    \E task \in paintJobs.running :
        /\ paintJobs' = [paintJobs EXCEPT !.running = @ \ {task}]
        /\ sessions' = IF task.kind = "fill"
                       THEN [sessions EXCEPT ![task.session].fill = "done"]
                       ELSE [sessions EXCEPT ![task.session].raster = "done"]
        /\ UNCHANGED <<cfgMultiThreading, paintColumns, paint, registryVars, pickVars, damageVars, calcVars>>

\* The user toggles the multithreading setting, at any time.
ConfigToggleMultiThreading ==
    /\ cfgMultiThreading' = ~cfgMultiThreading
    /\ UNCHANGED <<paintJobs, paintColumns, sessions, paint, registryVars, pickVars, damageVars, calcVars>>


(***************************************************************************)
(* Spec: the registry under ViewportCreate and ViewportRemove.             *)
(***************************************************************************)
InitWindow(classification) ==
    [classification |-> classification,
     viewport |-> nullptr,
     viewport_target_sprite |-> EntityIdNull,
     viewport_smart_follow_sprite |-> EntityIdNull,
     savedViewPos |-> XY(0, 0),
     flags |-> {},
     focus |-> [has |-> FALSE, value |-> CoordinateFocus(XYZ(0, 0, 0), 0)]]

InitWindows == [w \in WindowIds |->
                   InitWindow(IF w = "main" THEN "MainWindow" ELSE "Ride")]

InitEntities == [e \in EntityIds |->
                    IF e = 1 THEN Entity("Guest", 64, 32, 16, "Walking")
                    ELSE NoEntity]

NoCall == [op |-> "none", w |-> "none", result |-> "none"]

InitPaintIdle ==
    /\ cfgMultiThreading = FALSE
    /\ paintJobs = NoPool
    /\ paintColumns = <<>>
    /\ sessions = <<>>
    /\ paint = PaintIdle

\* PaintSession as the scan reads it: the pixel and the quadrant chain, each
\* entry with its Children chain
PickSession(x, y, zoom, paintHead) ==
    [DPI |-> [x |-> x, y |-> y, zoom_level |-> zoom], PaintHead |-> paintHead]

PickIdle ==
    [pc |-> "idle", session |-> PickSession(0, 0, 0, <<>>), viewFlags |-> {},
     filter |-> {}, ps |-> PsNull, info |-> NoInfo]

InitPickIdle == pick = PickIdle

\* No invalidate call has been made: nothing handed on, asked or marked.
DamageIdle == [pc |-> "idle", handed |-> <<>>, queries |-> <<>>, dirty |-> <<>>]

InitDamageIdle == damage = DamageIdle

CalcIdle == [op |-> "none"]

InitCalcIdle == calc = CalcIdle /\ gShowGridLinesRefCount = 0

\* The parts of the file a specification does not drive
InitRestIdle == InitDamageIdle /\ InitCalcIdle

InitRegistry ==
    /\ viewports = <<>>
    /\ windows = InitWindows
    /\ entities = InitEntities
    /\ lastCall = NoCall

Init == InitRegistry /\ InitPaintIdle /\ InitPickIdle /\ InitRestIdle

\* Arguments of the ViewportCreate calls of Spec.
RegScreenCoords == {XY(4, 2)}

RegFocuses == {CoordinateFocus(XYZ(32, 32, 0), 0), EntityFocus(1, 1)}

RegCreate ==
    \E w \in WindowIds, screenCoords \in RegScreenCoords, focus \in RegFocuses :
        ViewportCreate(w, screenCoords, 8, 6, focus, FALSE)

RegRemove == \E ptr \in VpPtrs : ViewportRemove(ptr)

RegWindowRemove == \E w \in WindowIds : WindowRemoveViewport(w)

Next == RegCreate \/ RegRemove \/ RegWindowRemove

Spec == Init /\ [][Next]_vars

(***************************************************************************)
(* C1: in every state reachable by ViewportCreate and ViewportRemove calls *)
(* the number of registered viewports is at most kMaxViewportCount.        *)
(***************************************************************************)
RegistryBounded == Len(viewports) <= kMaxViewportCount

\* The registry filled up by a successful create.
RegistryBoundedWitness ==
    /\ Len(viewports) = kMaxViewportCount
    /\ lastCall.op = "ViewportCreate"
    /\ lastCall.result = "created"

(***************************************************************************)
(* C2: a ViewportCreate call made while the registry is at capacity        *)
(* changes nothing: the registry, every registered viewport and every      *)
(* field of the calling window (viewport pointer, target sprite, saved     *)
(* view position) keep their values.                                       *)
(***************************************************************************)
CreateAtCapacityChangesNothing ==
    [][(lastCall'.op = "ViewportCreate" /\ Len(viewports) >= kMaxViewportCount)
          => (viewports' = viewports /\ windows' = windows)]_vars

\* A create was rejected for a window that already has a viewport.
CreateAtCapacityWitness ==
    /\ lastCall.op = "ViewportCreate"
    /\ lastCall.result = "rejected"
    /\ Len(viewports) = kMaxViewportCount
    /\ windows[lastCall.w].viewport # nullptr
    /\ windows[lastCall.w].viewport_target_sprite # EntityIdNull

(***************************************************************************)
(* C19: a ViewportRemove call for a viewport that is not in the registry,  *)
(* a second remove of the same viewport included, changes nothing: the     *)
(* registry, every registered viewport and every window keep their values, *)
(* and the call returns.                                                   *)
(***************************************************************************)
RemoveUnregisteredChangesNothing ==
    [][(lastCall'.op = "ViewportRemove" /\ lastCall'.result = "notfound")
          => (viewports' = viewports /\ windows' = windows)]_vars

\* A remove found nothing while other viewports are registered, one of them
\* held by a window.
RemoveUnregisteredWitness ==
    /\ lastCall.op = "ViewportRemove"
    /\ lastCall.result = "notfound"
    /\ Len(viewports) >= 2
    /\ \E w \in WindowIds : windows[w].viewport \in RegisteredPtrs



(***************************************************************************)
(* SpecPaint: ViewportPaint calls with the worker pool and the setting     *)
(* toggled at any time.                                                    *)
(***************************************************************************)
\* Left edges and widths of the rectangles painted under SpecPaint.
PaintLeft == 5

PaintWidth == 30

InitPaint ==
    /\ InitRegistry
    /\ InitPickIdle /\ InitRestIdle
    /\ cfgMultiThreading \in BOOLEAN
    /\ paintJobs = NoPool
    /\ paintColumns = <<>>
    /\ sessions = <<>>
    /\ paint = PaintIdle

PaintBegin ==
    \E x0 \in {-PaintLeft, 0}, width \in {0, PaintWidth, 2 * PaintWidth, 3 * PaintWidth},
       inhibited \in BOOLEAN, engineParallel \in BOOLEAN :
        ViewportPaintBegin(x0, width, 0, inhibited, engineParallel)

NextPaint ==
    \/ PaintBegin
    \/ ViewportPaintGenerateColumn
    \/ ViewportPaintJoinGenerate
    \/ ViewportPaintColumnStep
    \/ ViewportPaintJoinPaint
    \/ ViewportPaintFree
    \/ ViewportPaintReturn
    \/ JobPoolStartTask
    \/ JobPoolFinishTask
    \/ ConfigToggleMultiThreading

SpecPaint == InitPaint /\ [][NextPaint]_vars

(***************************************************************************)
(* SpecColumns: one inline ViewportPaint call over a wide range of         *)
(* rectangles and zoom levels.                                             *)
(***************************************************************************)
MaxColumnX == 40

MaxColumnWidth == 70

ColumnZooms == {-1, 0, 1}

InitColumns == InitRegistry /\ InitPickIdle /\ InitRestIdle /\ InitPaintIdle

ColumnsBegin ==
    /\ paint.calls = 0
    /\ \E x0 \in (-MaxColumnX)..MaxColumnX, width \in 0..MaxColumnWidth,
          zoom \in ColumnZooms :
           ViewportPaintBegin(x0, width, zoom, FALSE, FALSE)

NextColumns ==
    \/ ColumnsBegin
    \/ ViewportPaintGenerateColumn
    \/ ViewportPaintJoinGenerate
    \/ ViewportPaintColumnStep
    \/ ViewportPaintJoinPaint
    \/ ViewportPaintFree
    \/ ViewportPaintReturn

SpecColumns == InitColumns /\ [][NextColumns]_vars

SessionIds == 1..Len(sessions)

(***************************************************************************)
(* C3: scene-graph generation and arrangement has completed for every      *)
(* column session of a ViewportPaint call before rasterization starts for  *)
(* any of its sessions, with multithreading enabled or disabled.           *)
(***************************************************************************)
GenerationBeforeRasterization ==
    (\E s \in SessionIds : sessions[s].raster # "none")
        => /\ paint.x >= paint.rightBorder
           /\ \A t \in SessionIds : sessions[t].fill = "done"

\* A pool thread is rasterizing one of several pooled columns.
GenerationBeforeRasterizationWitness ==
    /\ paint.useMultithreading
    /\ Len(sessions) >= 2
    /\ \E s \in SessionIds : sessions[s].raster = "running"
    /\ \A t \in SessionIds : sessions[t].fillBy = "pool"

(***************************************************************************)
(* C4: the sessions of a paint call over [x0, x0+W) are one per 32-aligned *)
(* column c in [floor32(x0), x0+W); the session of column c covers exactly *)
(* [max(c, x0), min(c+32, x0+W)); consecutive sessions abut at multiples   *)
(* of 32, the first starts at x0 and the last ends at x0+W.                *)
(***************************************************************************)
ColumnsOf(x0, width) ==
    {c \in Floor2(x0, 32)..(x0 + width - 1) : c % 32 = 0}

SessionLeft(s) == sessions[s].DPI.x

SessionRight(s) == sessions[s].DPI.x + sessions[s].DPI.width

ColumnPartition ==
    paint.pc \in {"paint", "release"}
        => LET x0 == paint.dpi1.x
               width == paint.dpi1.width
               first == Floor2(x0, 32)
           IN  /\ Len(sessions) = Cardinality(ColumnsOf(x0, width))
               /\ \A s \in SessionIds :
                     LET c == first + 32 * (s - 1)
                     IN  /\ SessionLeft(s) = Max2(c, x0)
                         /\ SessionRight(s) = Min2(c + 32, x0 + width)
                         /\ SessionLeft(s) <= SessionRight(s)
               /\ Len(sessions) > 0
                     => /\ SessionLeft(1) = x0
                        /\ SessionRight(Len(sessions)) = x0 + width
               /\ \A s \in SessionIds :
                     s < Len(sessions)
                         => /\ SessionRight(s) = SessionLeft(s + 1)
                            /\ SessionRight(s) % 32 = 0

\* Three columns from an unaligned negative left edge to an unaligned right edge.
ColumnPartitionWitness ==
    /\ paint.pc = "release"
    /\ Len(sessions) = 3
    /\ paint.dpi1.x < 0
    /\ paint.dpi1.x % 32 # 0
    /\ (paint.dpi1.x + paint.dpi1.width) % 32 # 0

(***************************************************************************)
(* C5: every session allocated by a ViewportPaint call is freed exactly    *)
(* once, only after rasterization of all columns of the call has           *)
(* completed, and none is live when the call returns.                      *)
(***************************************************************************)
SessionsFreedOnceAfterRasterization ==
    /\ \A s \in SessionIds :
          /\ sessions[s].freed <= 1
          /\ sessions[s].freed = 1
                => \A t \in SessionIds : sessions[t].raster = "done"
    /\ (paint.pc = "idle" /\ paint.calls = 1)
          => /\ Len(paintColumns) = Len(sessions)
             /\ \A s \in SessionIds : sessions[s].freed = 1

\* A call with pooled rasterization of several columns has returned.
SessionsFreedWitness ==
    /\ paint.pc = "idle"
    /\ paint.useParallelDrawing
    /\ Len(sessions) >= 2
    /\ \A s \in SessionIds : sessions[s].freed = 1 /\ sessions[s].rasterBy = "pool"

(***************************************************************************)
(* C6: a column's rasterization is dispatched to the worker pool if and    *)
(* only if the sampled multithreading setting is on and the drawing engine *)
(* reports parallel drawing; otherwise it runs inline on the calling       *)
(* thread, also when generation of the same call went to the pool.         *)
(***************************************************************************)
RasterizationDispatch ==
    \A s \in SessionIds :
        sessions[s].rasterBy # "none"
            => /\ (sessions[s].rasterBy = "pool")
                      <=> (paint.useMultithreading /\ paint.engineParallel)
               /\ sessions[s].rasterBy = "inline" => sessions[s].raster = "done"

\* Generation went to the pool, rasterization of the same column ran inline.
RasterizationDispatchWitness ==
    \E s \in SessionIds :
        sessions[s].fillBy = "pool" /\ sessions[s].rasterBy = "inline"

(***************************************************************************)
(* C7: the multithreading setting is sampled once per ViewportPaint call:  *)
(* from then on the pool exists exactly if the sampled value is true,      *)
(* every column of the call is generated and rasterized in the sampled     *)
(* mode whatever the setting is changed to meanwhile, and no task is added *)
(* to a pool that does not exist.                                          *)
(***************************************************************************)
SettingSampledOnce ==
    /\ paintJobs.exists <=> paint.useMultithreading
    /\ ~paint.nullPoolUse
    /\ \A s \in SessionIds :
          /\ sessions[s].fillBy
                = (IF paint.useMultithreading THEN "pool" ELSE "inline")
          /\ sessions[s].rasterBy \in
                {"none", IF paint.useParallelDrawing THEN "pool" ELSE "inline"}

\* The setting differs from the sample while columns are being generated.
SettingSampledOnceWitness ==
    /\ paint.pc = "generate"
    /\ paint.x < paint.rightBorder
    /\ Len(sessions) >= 1
    /\ cfgMultiThreading # paint.useMultithreading


(***************************************************************************)
(* SpecView: one window's viewport under create, tick, rotate and remove,  *)
(* with the entities and the window's follow state changing in between.    *)
(***************************************************************************)
SetViewport(ptr, viewport) == [viewports EXCEPT ![VpIndex(ptr)] = viewport]

\* Where the window puts its viewport: cut by the left and top screen edges,
\* or entirely right of the screen, or entirely below it.
ViewScreenCoords == {XY(-3, -1), XY(ScreenWidth + 4, 2), XY(2, ScreenHeight + 2)}

ViewZooms == {-1, 1}

ViewFocuses(screenCoords, zoom) ==
    {CoordinateFocus(XYZ(32, 32, 0), zoom)}
    \cup (IF screenCoords.x < 0 THEN {EntityFocus(1, zoom)} ELSE {})

\* States of entity 1; entity 2 is the train of ride 1.
ViewEntityStates ==
    {Entity("Guest", 64, 32, 16, "Walking"),
     [Entity("Guest", LOCATION_NULL, 0, 0, "OnRide") EXCEPT !.CurrentRide = 1]}

\* What ScreenGetMapXY finds under the middle of the viewport: a tile of
\* this viewport, or, in the initial orientation only, nothing.
ViewProbes(viewport) ==
    {[has |-> TRUE, same |-> TRUE, pos |-> XY(40, 8)]}
    \cup (IF viewport.rotation = 0
          THEN {[has |-> FALSE, same |-> FALSE, pos |-> XY(0, 0)]}
          ELSE {})

InitView ==
    /\ viewports = <<>>
    /\ windows = [InitWindows EXCEPT !["ride"].flags = {"WF_7"}]
    /\ entities = [e \in EntityIds |->
                      IF e = 1 THEN Entity("Guest", 64, 32, 16, "Walking")
                      ELSE Entity("Vehicle", 48, 48, 32, "None")]
    /\ lastCall = NoCall
    /\ InitPaintIdle
    /\ InitPickIdle /\ InitRestIdle

ViewCreate ==
    /\ viewports = <<>>
    /\ \E w \in WindowIds, screenCoords \in ViewScreenCoords, zoom \in ViewZooms :
          \E focus \in ViewFocuses(screenCoords, zoom) :
              ViewportCreate(w, screenCoords, 9, 7, focus, FALSE)

\* ViewportUpdatePosition(w), the per-tick entry point
ViewTick ==
    \E w \in WindowIds, titleDemo \in BOOLEAN, dirtyOptimisations \in BOOLEAN :
        /\ windows[w].viewport # nullptr
        /\ \E window \in {windows[w]}, viewport \in {VpOf(windows[w].viewport)} :
              \E r \in {ViewportUpdatePosition(window, viewport, titleDemo,
                                               dirtyOptimisations)} :
                  /\ windows' = [windows EXCEPT ![w] = r.window]
                  /\ viewports' = SetViewport(window.viewport, r.viewport)
                  /\ Called("ViewportUpdatePosition", w, r.move)
        /\ UNCHANGED <<entities, paintVars, pickVars, damageVars, calcVars>>

\* ViewportRotateSingle(w, direction)
ViewRotate ==
    \E w \in WindowIds, direction \in {-1, 1} :
        /\ windows[w].viewport # nullptr
        /\ \E probe \in ViewProbes(VpOf(windows[w].viewport)) :
           LET r == ViewportRotateSingleInternal(windows[w], VpOf(windows[w].viewport),
                                                 direction, probe)
           IN  /\ windows' = [windows EXCEPT ![w] = r.window]
               /\ viewports' = SetViewport(windows[w].viewport, r.viewport)
               /\ Called("ViewportRotateSingle", w, "rotated")
        /\ UNCHANGED <<entities, paintVars, pickVars, damageVars, calcVars>>

\* The window code starts a scroll to a location (in the initial
\* orientation), or sets or clears the entity the viewport follows.
ViewWindowCommand ==
    \E w \in WindowIds :
        /\ windows[w].viewport # nullptr
        /\ \/ /\ VpOf(windows[w].viewport).rotation = 0
              /\ windows' = [windows EXCEPT
                                ![w].savedViewPos = XY(-10, 26),
                                ![w].flags = @ \cup {"WF_SCROLLING_TO_LOCATION"}]
           \/ \E e \in {EntityIdNull, 1} :
                 windows' = [windows EXCEPT ![w].viewport_target_sprite = e]
        /\ UNCHANGED <<viewports, entities, lastCall, paintVars, pickVars, damageVars, calcVars>>

\* The simulation moves, frees or changes entity 1.
ViewEntityUpdate ==
    /\ \E state \in ViewEntityStates : entities' = [entities EXCEPT ![1] = state]
    /\ UNCHANGED <<viewports, windows, lastCall, paintVars, pickVars, damageVars, calcVars>>

\* The window is closed: ViewportRemove(w->viewport), and the window that is
\* opened next in its place starts from its initial fields.
ViewRemove ==
    \E w \in WindowIds :
        /\ windows[w].viewport # nullptr
        /\ viewports' = ViewportRemoveList(windows[w].viewport)
        /\ windows' = [windows EXCEPT
                          ![w] = [InitWindows[w] EXCEPT
                                     !.flags = windows[w].flags \cap {"WF_7"}]]
        /\ Called("ViewportRemove", w, "removed")
        /\ UNCHANGED <<entities, paintVars, pickVars, damageVars, calcVars>>

NextView ==
    \/ ViewCreate
    \/ ViewTick
    \/ ViewRotate
    \/ ViewWindowCommand
    \/ ViewEntityUpdate
    \/ ViewRemove

SpecView == InitView /\ [][NextView]_vars

(***************************************************************************)
(* C8: after ViewportCreate, ViewportUpdatePosition (with ViewportMove on  *)
(* all its paths) and rotation return, every registered viewport has       *)
(* view_width = zoom.apply(width) and view_height = zoom.apply(height).    *)
(***************************************************************************)
ViewSizeInvariant ==
    \A i \in 1..Len(viewports) :
        /\ viewports[i].view_width = ZoomApplyTo(viewports[i].zoom, viewports[i].width)
        /\ viewports[i].view_height = ZoomApplyTo(viewports[i].zoom, viewports[i].height)

\* A tick has shifted a zoomed viewport that the clamp had to cut at the
\* left and top screen edges.
ViewSizeInvariantWitness ==
    /\ lastCall.op = "ViewportUpdatePosition"
    /\ lastCall.result = "shift"
    /\ Len(viewports) = 1
    /\ viewports[1].zoom = 1
    /\ viewports[1].pos.x < 0
    /\ viewports[1].rotation # 0


(***************************************************************************)
(* SpecScroll: a window that is scrolling to a location is ticked until it *)
(* gets there.                                                             *)
(***************************************************************************)
\* The saved view position lies within this distance of the origin on both
\* axes.
ScrollMax == 20

\* Saved view positions: on each axis at the start, one pixel off, nine
\* pixels off, and at either end of the range.
ScrollTargets == {XY(x, y) : x \in {-ScrollMax, -5, -4, 4, ScrollMax},
                             y \in {-ScrollMax, 8, 9, 18, ScrollMax}}

\* A 9 x 7 viewport at zoom 0 that lies inside the screen
ScrollViewport ==
    [id |-> 1,
     pos |-> XY(2, 2),
     width |-> 9,
     height |-> 7,
     view_width |-> ZoomApplyTo(0, 9),
     view_height |-> ZoomApplyTo(0, 7),
     zoom |-> 0,
     flags |-> {},
     rotation |-> 0,
     viewPos |-> XY(-5, 9),
     visibility |-> "Unknown"]

\* One of the two windows shows the viewport and rests at its view position.
InitScroll ==
    /\ viewports = <<ScrollViewport>>
    /\ \E w \in WindowIds :
          windows = [InitWindows EXCEPT
                        ![w].viewport = 1,
                        ![w].savedViewPos = ScrollViewport.viewPos,
                        !["ride"].flags = {"WF_7"}]
    /\ entities = InitEntities
    /\ lastCall = NoCall
    /\ InitPaintIdle
    /\ InitPickIdle /\ InitRestIdle

\* The window code starts the scroll before the first tick: it saves an
\* in-bounds view position and sets the flag.
ScrollBegin ==
    \E w \in WindowIds, savedViewPos \in ScrollTargets :
        /\ lastCall = NoCall
        /\ windows[w].viewport # nullptr
        /\ savedViewPos # viewports[1].viewPos
        /\ SavedViewPosAtMapEdge([windows[w] EXCEPT !.savedViewPos = savedViewPos],
                                 viewports[1]) = savedViewPos
        /\ windows' = [windows EXCEPT
                          ![w].savedViewPos = savedViewPos,
                          ![w].flags = @ \cup {"WF_SCROLLING_TO_LOCATION"}]
        /\ Called("WindowScrollToLocation", w, "scrolling")
        /\ UNCHANGED <<viewports, entities, paintVars, pickVars, damageVars, calcVars>>

NextScroll ==
    \/ ScrollBegin
    \/ ViewTick

\* The game loop ticks every window's viewport in every frame.
SpecScroll == InitScroll /\ [][NextScroll]_vars /\ WF_vars(ViewTick)

ScrollWindowId == CHOOSE w \in WindowIds : windows[w].viewport # nullptr

ScrollDelta == XY(windows[ScrollWindowId].savedViewPos.x - viewports[1].viewPos.x,
                  windows[ScrollWindowId].savedViewPos.y - viewports[1].viewPos.y)

Scrolling == "WF_SCROLLING_TO_LOCATION" \in windows[ScrollWindowId].flags

Sign(n) == IF n < 0 THEN -1 ELSE IF n > 0 THEN 1 ELSE 0

\* ceil(n / 8) for n >= 0
CeilEighth(n) == CHOOSE k \in 0..n : 8 * k >= n /\ 8 * k < n + 8

\* One tick of a scrolling window: each axis moves by ceil(|delta|/8) with
\* the sign of delta, the remaining distance does not change sign, the saved
\* position stays, and the flag goes exactly when both deltas were zero.
ScrollTickStep ==
    Scrolling =>
        /\ viewports'[1].viewPos.x
              = viewports[1].viewPos.x + Sign(ScrollDelta.x) * CeilEighth(Abs(ScrollDelta.x))
        /\ viewports'[1].viewPos.y
              = viewports[1].viewPos.y + Sign(ScrollDelta.y) * CeilEighth(Abs(ScrollDelta.y))
        /\ ScrollDelta.x * ScrollDelta'.x >= 0
        /\ ScrollDelta.y * ScrollDelta'.y >= 0
        /\ Abs(ScrollDelta'.x) <= Abs(ScrollDelta.x)
        /\ Abs(ScrollDelta'.y) <= Abs(ScrollDelta.y)
        /\ windows'[ScrollWindowId].savedViewPos = windows[ScrollWindowId].savedViewPos
        /\ Scrolling' <=> (ScrollDelta # XY(0, 0))

ScrollArrived == ScrollDelta = XY(0, 0) /\ ~Scrolling

(***************************************************************************)
(* C9: with the scrolling-to-location flag set, no target sprite and an    *)
(* in-bounds saved view position, every tick moves the view position       *)
(* toward the saved position by ceil(|delta|/8) per axis with the sign of  *)
(* delta and never overshoots; after finitely many ticks the view position *)
(* equals the saved position, and the flag is cleared then and not before. *)
(***************************************************************************)
ScrollConverges ==
    /\ [][ScrollTickStep]_vars
    /\ [](~Scrolling => ScrollDelta = XY(0, 0))
    /\ Scrolling ~> []ScrollArrived

\* A scroll over the longest distance has arrived and cleared its flag.
ScrollConvergesWitness ==
    /\ lastCall.op = "ViewportUpdatePosition"
    /\ ScrollArrived
    /\ viewports[1].viewPos = XY(ScrollMax, -ScrollMax)


(***************************************************************************)
(* SpecPick: SetInteractionInfoFromPaintSession is called on the scene     *)
(* graphs that generation and arrangement can leave in a session.          *)
(***************************************************************************)
\* The nodes of a scene graph, over all its quadrant entries and chains.
MaxNodes == 3

NoElement == [has |-> FALSE, type |-> "None",
              entry |-> [has |-> FALSE, isTree |-> FALSE, tool_id |-> "Arrow"]]

NoPsEntity == [has |-> FALSE, Type |-> "Null", isVehicle |-> FALSE,
               rideWithoutTrack |-> FALSE]

PaintStruct(image_id, ScreenPos, MapPos, item, element, entity, attached) ==
    [image_id |-> image_id, ScreenPos |-> ScreenPos, MapPos |-> MapPos,
     InteractionItem |-> item, Element |-> element, Entity |-> entity,
     Attached |-> attached]

\* What generation emits: a ride piece, a guest, a text label, a tree whose
\* own image is never opaque but carries an attached image, and a vehicle
\* of a trackless ride drawn with a remap colour.
PaintStructKinds ==
    {PaintStruct(PlainImage(13), XY(1, 0), XY(32, 0), "Ride", NoElement, NoPsEntity, <<>>),
     PaintStruct(PlainImage(11), XY(0, 0), XY(64, 0), "Entity", NoElement,
                 [NoPsEntity EXCEPT !.has = TRUE, !.Type = "Guest"], <<>>),
     PaintStruct(PlainImage(10), XY(0, 0), XY(96, 0), "Label", NoElement, NoPsEntity, <<>>),
     PaintStruct(PlainImage(12), XY(0, 0), XY(0, 32), "Scenery",
                 [has |-> TRUE, type |-> "SmallScenery",
                  entry |-> [has |-> TRUE, isTree |-> TRUE, tool_id |-> "TreeDown"]],
                 NoPsEntity,
                 <<[image_id |-> PlainImage(10), RelativePos |-> XY(-2, 0)]>>),
     PaintStruct(ImageId(11, FALSE, FALSE, TRUE, 1), XY(-1, 0), XY(0, 64), "Entity",
                 NoElement,
                 [has |-> TRUE, Type |-> "Vehicle", isVehicle |-> TRUE,
                  rideWithoutTrack |-> TRUE], <<>>)}

\* PaintSessionArrange: the emitted nodes in draw order, each either opening
\* a quadrant entry or linked as the next child of the entry before it
RECURSIVE ArrangeFrom(_, _, _)
ArrangeFrom(emitted, i, paintHead) ==
    IF i > Len(emitted)
    THEN paintHead
    ELSE IF emitted[i].opens \/ paintHead = <<>>
    THEN ArrangeFrom(emitted, i + 1, Append(paintHead, <<emitted[i].ps>>))
    ELSE ArrangeFrom(emitted, i + 1,
                     [paintHead EXCEPT ![Len(paintHead)] = Append(@, emitted[i].ps)])

PaintSessionArrange(emitted) == ArrangeFrom(emitted, 1, <<>>)

\* Generation also links nodes of no interaction category (None) under an
\* entry.
Emitted ==
    [ps : PaintStructKinds, opens : BOOLEAN]
        \cup {[ps |-> PaintStruct(PlainImage(10), XY(0, 0), XY(96, 32), "None", NoElement,
                                  NoPsEntity, <<>>),
               opens |-> FALSE]}

RECURSIVE EmittedListsOfLen(_)
EmittedListsOfLen(n) ==
    IF n = 0
    THEN {<<>>}
    ELSE {Append(list, e) : list \in EmittedListsOfLen(n - 1), e \in Emitted}

EmittedLists == UNION {EmittedListsOfLen(n) : n \in 0..MaxNodes}

PickAllItems == {"None", "Entity", "Ride", "Scenery", "Label"}

PickCall(x, zoom, viewFlags, filter) ==
    [x |-> x, zoom |-> zoom, viewFlags |-> viewFlags, filter |-> filter]

\* The picked pixel, the zoom of the session, the viewport flags and the filter
PickCalls ==
    {PickCall(0, 0, {}, PickAllItems), PickCall(1, 0, {}, PickAllItems),
     PickCall(0, 1, {}, PickAllItems), PickCall(0, 0, {"HIDE_RIDES"}, PickAllItems),
     PickCall(1, 0, {"HIDE_GUESTS"}, PickAllItems), PickCall(0, 0, {}, {"Entity"})}

InitPick == InitRegistry /\ InitPaintIdle /\ InitPickIdle /\ InitRestIdle

\* One call of SetInteractionInfoFromPaintSession
PickScan ==
    /\ pick.pc = "idle"
    /\ \E emitted \in EmittedLists, call \in PickCalls :
        /\ (emitted # <<>> => emitted[1].opens)
        /\ LET session == PickSession(call.x, 0, call.zoom, PaintSessionArrange(emitted))
               r == SetInteractionInfoFromPaintSession(session, call.viewFlags, call.filter)
           IN  pick' = [pc |-> "returned", session |-> session,
                        viewFlags |-> call.viewFlags, filter |-> call.filter,
                        ps |-> r.ps, info |-> r.info]
    /\ UNCHANGED <<registryVars, paintVars, damageVars, calcVars>>

\* The caller has read the result and frees the session (line 1826).
PickSessionFree ==
    /\ pick.pc = "returned"
    /\ pick' = PickIdle
    /\ UNCHANGED <<registryVars, paintVars, damageVars, calcVars>>

NextPick ==
    \/ PickScan
    \/ PickSessionFree

SpecPick == InitPick /\ [][NextPick]_vars

\* The nodes of the session's scene graph in scan order: the quadrant chain
\* from the paint head and, inside each entry, its Children chain
RECURSIVE ScanOrderFrom(_, _)
ScanOrderFrom(paintHead, q) ==
    IF q > Len(paintHead)
    THEN <<>>
    ELSE [c \in 1..Len(paintHead[q]) |-> PsPtr(q, c)] \o ScanOrderFrom(paintHead, q + 1)

ScanOrder == ScanOrderFrom(pick.session.PaintHead, 1)

ScanPlace(ptr) == CHOOSE i \in 1..Len(ScanOrder) : ScanOrder[i] = ptr

\* The node's own sprite is opaque at the picked pixel, its category passes
\* the filter and it is fully visible.
SpriteQualifies(ptr) ==
    LET ps == PsAt(pick.session, ptr)
    IN  /\ IsSpriteInteractedWith(pick.session.DPI, ps.image_id, ps.ScreenPos)
        /\ PSSpriteTypeIsInFilter(ps, pick.filter)
        /\ GetPaintStructVisibility(ps, pick.viewFlags) = "Visible"

\* The same through one of the node's attached images.
AttachmentQualifies(ptr) ==
    LET ps == PsAt(pick.session, ptr)
    IN  /\ \E i \in 1..Len(ps.Attached) : PsAttachedHit(pick.session, ps, i)
        /\ PSSpriteTypeIsInFilter(ps, pick.filter)
        /\ GetPaintStructVisibility(ps, pick.viewFlags) = "Visible"

\* A test the scan makes on the node succeeds: its own sprite, or, for the
\* node that ends a Children chain, an attached image.
ScanQualifies(ptr) ==
    \/ SpriteQualifies(ptr)
    \/ ptr[2] = Len(pick.session.PaintHead[ptr[1]]) /\ AttachmentQualifies(ptr)

ScanPtrs == {ScanOrder[i] : i \in 1..Len(ScanOrder)}

(***************************************************************************)
(* C10: picking returns the last qualifying node in scan order (quadrant   *)
(* chain from the paint head, Children chain inside each entry): no node   *)
(* whose sprite is opaque at the pixel, passes the filter and is fully     *)
(* visible comes after the returned one, so of two such overlapping        *)
(* sprites the later in draw order wins; and when no node qualifies the    *)
(* result is the empty (None) result.                                      *)
(***************************************************************************)
PickReturnsLastQualifying ==
    pick.pc = "returned" =>
        /\ IF \E ptr \in ScanPtrs : ScanQualifies(ptr)
           THEN /\ pick.ps \in ScanPtrs
                /\ ScanQualifies(pick.ps)
                /\ \A ptr \in ScanPtrs :
                      ScanQualifies(ptr) => ScanPlace(ptr) <= ScanPlace(pick.ps)
                /\ pick.info = InteractionInfo(PsAt(pick.session, pick.ps))
           ELSE pick.ps = PsNull /\ pick.info = NoInfo
        /\ \A ptr \in ScanPtrs :
              SpriteQualifies(ptr) => ScanPlace(ptr) <= ScanPlace(pick.ps)
        /\ (\A ptr \in ScanPtrs : ~SpriteQualifies(ptr) /\ ~AttachmentQualifies(ptr))
              => pick.info = NoInfo

\* Two qualifying sprites of different categories overlap the pixel, one in
\* an earlier quadrant entry and one in a later; the later one is returned.
PickReturnsLastQualifyingWitness ==
    /\ pick.pc = "returned"
    /\ Len(pick.session.PaintHead) >= 2
    /\ \E a \in ScanPtrs :
          /\ a[1] < pick.ps[1]
          /\ SpriteQualifies(a)
          /\ SpriteQualifies(pick.ps)
          /\ PsAt(pick.session, a).InteractionItem # pick.info.interactionType

(***************************************************************************)
(* C29: for every node of the scene graph, quadrant-chain node or sibling  *)
(* in its chain, an attached image that is opaque at the picked pixel at   *)
(* the node's screen position plus its relative offset makes the node a    *)
(* hit candidate under the filter and visibility rules of its own image:   *)
(* the scan returns that node or one that it reaches later.                *)
(***************************************************************************)
AttachedImageMakesCandidate ==
    pick.pc = "returned" =>
        \A ptr \in ScanPtrs :
            AttachmentQualifies(ptr) =>
                /\ pick.ps \in ScanPtrs
                /\ ScanPlace(ptr) <= ScanPlace(pick.ps)

(***************************************************************************)
(* C30: picking never returns a node whose interaction category is None or *)
(* Label or is missing from the filter, and never one whose visibility     *)
(* under the viewport's flags is Partial or Hidden.                        *)
(***************************************************************************)
PickedNodeIsInteractive ==
    pick.pc = "returned" /\ pick.ps # PsNull =>
        LET ps == PsAt(pick.session, pick.ps)
        IN  /\ ps.InteractionItem \notin {"None", "Label"}
            /\ ps.InteractionItem \in pick.filter
            /\ pick.info.interactionType = ps.InteractionItem
            /\ GetPaintStructVisibility(ps, pick.viewFlags) \notin {"Partial", "Hidden"}

\* Something is returned although two nodes after it in scan order have an
\* opaque sprite at the pixel: one of category None whose bit is set in the
\* filter, and one that the flags hide or ghost.
PickedNodeIsInteractiveWitness ==
    /\ pick.pc = "returned"
    /\ pick.ps # PsNull
    /\ \E a, b \in ScanPtrs :
          /\ ScanPlace(a) > ScanPlace(pick.ps)
          /\ ScanPlace(b) > ScanPlace(pick.ps)
          /\ PsOwnHit(pick.session, PsAt(pick.session, a))
          /\ PsOwnHit(pick.session, PsAt(pick.session, b))
          /\ PsAt(pick.session, a).InteractionItem = "None"
          /\ "None" \in pick.filter
          /\ GetPaintStructVisibility(PsAt(pick.session, b), pick.viewFlags)
                \in {"Partial", "Hidden"}

(***************************************************************************)
(* Invalidation: ViewportsInvalidate and ViewportInvalidate. damage holds  *)
(* the last call: the rectangle handed to each viewport, the windows asked *)
(* for their visibility and the rectangles given to GfxSetDirtyBlocks.     *)
(***************************************************************************)
ScreenRect(p1, p2) == [Point1 |-> p1, Point2 |-> p2]

\* WindowManager::GetOwner: the window that holds the viewport, "none" for
\* nullptr
GetOwner(ptr) ==
    IF \E w \in WindowIds : windows[w].viewport = ptr
    THEN CHOOSE w \in WindowIds : windows[w].viewport = ptr
    ELSE "none"

\* WindowIsVisible(owner): the window is visible unless other windows cover it
WindowIsVisible(coveredWindows, owner) == owner \notin coveredWindows

\* WindowIsVisible caches what it found in the viewport of the window
VisibilityFound(visible) == IF visible THEN "Visible" ELSE "Covered"

InvalidateAsksOwner_AlsoMain(viewport, owner) ==
    viewport.visibility = "Unknown" /\ owner # "none"

\* ViewportInvalidate, lines 1839-1843: is WindowIsVisible(*owner) called
InvalidateAsksOwner(viewport, owner) ==
    /\ viewport.visibility = "Unknown"
    /\ owner # "none"
    /\ windows[owner].classification # "MainWindow"

InvalidateSkipsCovered_Never(visibility) == FALSE

\* ViewportInvalidate, lines 1853-1854
InvalidateSkipsCovered(visibility) == visibility = "Covered"

\* ViewportInvalidate, line 1860
InvalidateReaches(viewport, screenRect) ==
    /\ screenRect.Point2.x > viewport.viewPos.x
    /\ screenRect.Point2.y > viewport.viewPos.y

\* ViewportInvalidate, lines 1856-1870: the rectangle given to GfxSetDirtyBlocks
InvalidateDirtyRect(viewport, screenRect) ==
    LET viewportRight == viewport.viewPos.x + viewport.view_width
        viewportBottom == viewport.viewPos.y + viewport.view_height
        left == Max2(screenRect.Point1.x, viewport.viewPos.x) - viewport.viewPos.x
        top == Max2(screenRect.Point1.y, viewport.viewPos.y) - viewport.viewPos.y
        right == Min2(screenRect.Point2.x, viewportRight) - viewport.viewPos.x
        bottom == Min2(screenRect.Point2.y, viewportBottom) - viewport.viewPos.y
    IN  ScreenRect(XY(ZoomApplyInversedTo(viewport.zoom, left) + viewport.pos.x,
                      ZoomApplyInversedTo(viewport.zoom, top) + viewport.pos.y),
                   XY(ZoomApplyInversedTo(viewport.zoom, right) + viewport.pos.x,
                      ZoomApplyInversedTo(viewport.zoom, bottom) + viewport.pos.y))

\* ViewportInvalidate, lines 1834-1874: the visibility cached in the viewport
\* afterwards, the windows asked and the rectangles marked dirty
ViewportInvalidate(viewport, screenRect, coveredWindows) ==
    LET owner == GetOwner(viewport.id)
        asks == InvalidateAsksOwner(viewport, owner)
        visible == WindowIsVisible(coveredWindows, owner)
        visibility == IF asks THEN VisibilityFound(visible) ELSE viewport.visibility
        marks == /\ ~(asks /\ ~visible)
                 /\ ~InvalidateSkipsCovered(visibility)
                 /\ InvalidateReaches(viewport, screenRect)
    IN  [visibility |-> visibility,
         queries |-> IF asks THEN <<[vp |-> viewport.id, w |-> owner]>> ELSE <<>>,
         dirty |-> IF marks
                   THEN <<[vp |-> viewport.id,
                           rect |-> InvalidateDirtyRect(viewport, screenRect)]>>
                   ELSE <<>>]

\* ViewportsInvalidate, lines 249, 275 and 290: the zoom test of the broadcast
InvalidateQualifies(viewport, maxZoom) == maxZoom = -1 \/ viewport.zoom <= maxZoom

\* ViewportsInvalidate(x, y, z0, z1, maxZoom), lines 255-260: the rectangle
\* for a viewport of the given rotation, x and y being the parameters after
\* lines 253-254
WorldRect(rotation, x, y, z0, z1) ==
    LET screenCoord == Translate3DTo2DWithZ(rotation, XYZ(x, y, 0))
    IN  ScreenRect(XY(screenCoord.x - 32, screenCoord.y - 32 - z1),
                   XY(screenCoord.x + 32, screenCoord.y + 32 - z0))

\* ViewportsInvalidate(x, y, z0, z1, maxZoom), lines 247-263: the rectangles
\* handed to viewports i.. of the list, x and y being the loop's variables
\* before viewport i
RECURSIVE WorldRectsFrom(_, _, _, _, _, _)
WorldRectsFrom(i, x, y, z0, z1, maxZoom) ==
    IF i > Len(viewports) THEN <<>>
    ELSE IF InvalidateQualifies(viewports[i], maxZoom)
    THEN <<WorldRect(viewports[i].rotation, x + 16, y + 16, z0, z1)>>
             \o WorldRectsFrom(i + 1, x + 16, y + 16, z0, z1, maxZoom)
    ELSE <<ScreenRect(XY(0, 0), XY(0, 0))>> \o WorldRectsFrom(i + 1, x, y, z0, z1, maxZoom)

\* The loop of the three ViewportsInvalidate overloads from viewport i on:
\* rects[i] is handed to viewport i if it qualifies. acc is the list, the
\* rectangles handed on (each with the Viewport and its owner as the call
\* found them and the visibility cached when it returned), the windows asked and the rectangles marked so far.
RECURSIVE InvalidateEachFrom(_, _, _, _, _)
InvalidateEachFrom(i, rects, maxZoom, coveredWindows, acc) ==
    IF i > Len(acc.viewports) THEN acc
    ELSE IF ~InvalidateQualifies(acc.viewports[i], maxZoom)
    THEN InvalidateEachFrom(i + 1, rects, maxZoom, coveredWindows, acc)
    ELSE LET vp == acc.viewports[i]
             r == ViewportInvalidate(vp, rects[i], coveredWindows)
         IN  InvalidateEachFrom(i + 1, rects, maxZoom, coveredWindows,
                 [viewports |-> [acc.viewports EXCEPT ![i].visibility = r.visibility],
                  handed |-> Append(acc.handed, [vp |-> vp.id, rect |-> rects[i], before |-> vp,
                                              owner |-> GetOwner(vp.id),
                                              after |-> r.visibility]),
                  queries |-> acc.queries \o r.queries,
                  dirty |-> acc.dirty \o r.dirty])

InvalidateEach(rects, maxZoom, coveredWindows) ==
    InvalidateEachFrom(1, rects, maxZoom, coveredWindows,
                       [viewports |-> viewports, handed |-> <<>>, queries |-> <<>>,
                        dirty |-> <<>>])

\* ViewportsInvalidate(x, y, z0, z1, maxZoom), lines 245-265
ViewportsInvalidateWorld(x, y, z0, z1, maxZoom, coveredWindows) ==
    /\ \E r \in {InvalidateEach(WorldRectsFrom(1, x, y, z0, z1, maxZoom), maxZoom,
                                coveredWindows)} :
          /\ viewports' = r.viewports
          /\ damage' = [pc |-> "world", x |-> x, y |-> y, z0 |-> z0, z1 |-> z1,
                        maxZoom |-> maxZoom, handed |-> r.handed,
                        queries |-> r.queries, dirty |-> r.dirty]
    /\ UNCHANGED <<windows, entities, lastCall, paintVars, pickVars, calcVars>>

PointRect_TileCentre(rotation, pos, width, minHeight, maxHeight) ==
    LET screenCoords == Translate3DTo2DWithZ(rotation, XYZ(pos.x + 16, pos.y + 16, pos.z))
    IN  ScreenRect(XY(screenCoords.x - width, screenCoords.y - minHeight),
                   XY(screenCoords.x + width, screenCoords.y + maxHeight))

\* ViewportsInvalidate(pos, width, minHeight, maxHeight, maxZoom), lines
\* 273-275: the rectangle for a viewport of the given rotation
PointRect(rotation, pos, width, minHeight, maxHeight) ==
    LET screenCoords == Translate3DTo2DWithZ(rotation, pos)
    IN  ScreenRect(XY(screenCoords.x - width, screenCoords.y - minHeight),
                   XY(screenCoords.x + width, screenCoords.y + maxHeight))

\* ViewportsInvalidate(pos, width, minHeight, maxHeight, maxZoom), lines 267-280
ViewportsInvalidatePoint(pos, width, minHeight, maxHeight, maxZoom, coveredWindows) ==
    /\ \E r \in {InvalidateEach([i \in 1..Len(viewports) |->
                                    PointRect(viewports[i].rotation, pos, width,
                                              minHeight, maxHeight)],
                                maxZoom, coveredWindows)} :
          /\ viewports' = r.viewports
          /\ damage' = [pc |-> "point", pos |-> pos, width |-> width,
                        minHeight |-> minHeight, maxHeight |-> maxHeight,
                        maxZoom |-> maxZoom, handed |-> r.handed,
                        queries |-> r.queries, dirty |-> r.dirty]
    /\ UNCHANGED <<windows, entities, lastCall, paintVars, pickVars, calcVars>>

\* ViewportsInvalidate(screenRect, maxZoom), lines 282-291
ViewportsInvalidateScreen(screenRect, maxZoom, coveredWindows) ==
    /\ \E r \in {InvalidateEach([i \in 1..Len(viewports) |-> screenRect], maxZoom,
                                coveredWindows)} :
          /\ viewports' = r.viewports
          /\ damage' = [pc |-> "screen", screenRect |-> screenRect,
                        maxZoom |-> maxZoom, handed |-> r.handed,
                        queries |-> r.queries, dirty |-> r.dirty]
    /\ UNCHANGED <<windows, entities, lastCall, paintVars, pickVars, calcVars>>

(***************************************************************************)
(* SpecDamage: windows create viewports centred on the world origin, the   *)
(* main view is rotated, the game invalidates world points and screen      *)
(* rectangles, and the window manager forgets the cached visibilities at   *)
(* the start of a frame.                                                   *)
(***************************************************************************)
\* The zoom a window opens its viewport with
DamageZooms(w) == IF w = "main" THEN {0} ELSE {0, 1}

\* z1 of the world rectangle
DamageHeights == {0, 16}

\* The windows that other windows cover completely at the time of the call
DamageCovered == {{}, {"ride"}}

\* Damage entirely left of, above, right of and below every view of the
\* model, damage that starts on the right edge of the widest view, and damage
\* that overlaps each view
DamageRects ==
    {ScreenRect(XY(-100, -10), XY(-60, 10)), ScreenRect(XY(-10, -120), XY(10, -80)),
     ScreenRect(XY(60, -10), XY(100, 10)), ScreenRect(XY(-10, 80), XY(10, 120)),
     ScreenRect(XY(40, -10), XY(70, 10)), ScreenRect(XY(-5, -5), XY(5, 5)),
     ScreenRect(XY(-50, -70), XY(0, 0))}

InitDamage ==
    /\ InitRegistry
    /\ InitPaintIdle
    /\ InitPickIdle
    /\ InitRestIdle

\* The main window opens its viewport first, the ride window after it.
DamageCreate ==
    \E w \in WindowIds :
        /\ windows[w].viewport = nullptr
        /\ w # "main" => windows["main"].viewport # nullptr
        /\ \E zoom \in DamageZooms(w) :
              ViewportCreate(w, XY(4, 2), 80, 112, CoordinateFocus(XYZ(0, 0, 0), zoom),
                             FALSE)

\* ViewportRotateSingle(main window, 1); nothing is found under the middle of
\* the view, which stays where it is
DamageRotate ==
    /\ windows["main"].viewport # nullptr
    /\ LET r == ViewportRotateSingleInternal(windows["main"],
                    VpOf(windows["main"].viewport), 1,
                    [has |-> FALSE, same |-> FALSE, pos |-> XY(0, 0)])
       IN  /\ windows' = [windows EXCEPT !["main"] = r.window]
           /\ viewports' = SetViewport(windows["main"].viewport, r.viewport)
           /\ Called("ViewportRotateSingle", "main", "rotated")
    /\ UNCHANGED <<entities, paintVars, pickVars, damageVars, calcVars>>

DamageWorld ==
    /\ viewports # <<>>
    /\ \E x \in {0, 32}, z1 \in DamageHeights, maxZoom \in {-1, 0},
          coveredWindows \in DamageCovered :
          ViewportsInvalidateWorld(x, 0, 0, z1, maxZoom, coveredWindows)

DamagePoint ==
    /\ viewports # <<>>
    /\ \E pos \in {XYZ(0, 0, 0), XYZ(32, 0, 16)}, maxHeight \in {16, 32},
          coveredWindows \in DamageCovered :
          ViewportsInvalidatePoint(pos, 16, 16, maxHeight, -1, coveredWindows)

DamageScreen ==
    /\ viewports # <<>>
    /\ \E screenRect \in DamageRects, coveredWindows \in DamageCovered :
          ViewportsInvalidateScreen(screenRect, -1, coveredWindows)

\* WindowResetVisibilities: every cached visibility is Unknown again
DamageFrame ==
    /\ \E i \in 1..Len(viewports) : viewports[i].visibility # "Unknown"
    /\ viewports' = [i \in 1..Len(viewports) |->
                        [viewports[i] EXCEPT !.visibility = "Unknown"]]
    /\ UNCHANGED <<windows, entities, lastCall, paintVars, pickVars, damageVars, calcVars>>

NextDamage ==
    \/ DamageCreate
    \/ DamageRotate
    \/ DamageWorld
    \/ DamagePoint
    \/ DamageScreen
    \/ DamageFrame

SpecDamage == InitDamage /\ [][NextDamage]_vars

\* The entries of a sequence of the call that belong to the viewport
DamageOf(entries, vp) == {j \in 1..Len(entries) : entries[j].vp = vp}

DamageHanded == {damage.handed[i] : i \in 1..Len(damage.handed)}

\* The view rectangle [viewPos, viewPos + (view_width, view_height))
ViewRect(viewport) ==
    ScreenRect(viewport.viewPos,
               XY(viewport.viewPos.x + viewport.view_width,
                  viewport.viewPos.y + viewport.view_height))

\* The rectangle lies entirely left of, right of, above or below the other
Disjoint(rect, view) ==
    \/ rect.Point2.x <= view.Point1.x
    \/ rect.Point1.x >= view.Point2.x
    \/ rect.Point2.y <= view.Point1.y
    \/ rect.Point1.y >= view.Point2.y

(***************************************************************************)
(* C11: a ViewportInvalidate call on a viewport whose cached visibility is *)
(* Covered gives no rectangle to GfxSetDirtyBlocks, whatever the damage    *)
(* rectangle is.                                                           *)
(***************************************************************************)
InvalidateCoveredMarksNothing ==
    \A h \in DamageHanded :
        h.before.visibility = "Covered" => DamageOf(damage.dirty, h.vp) = {}

\* A covered viewport was handed damage that overlaps its view.
InvalidateCoveredMarksNothingWitness ==
    \E h \in DamageHanded :
        /\ h.before.visibility = "Covered"
        /\ ~Disjoint(h.rect, ViewRect(h.before))
        /\ DamageOf(damage.dirty, h.vp) = {}

(***************************************************************************)
(* C12 as stated: a ViewportInvalidate call on a viewport whose cached     *)
(* visibility is Unknown asks the owning window for its visibility exactly *)
(* once, whatever the owning window is.                                    *)
(***************************************************************************)
InvalidateUnknownAsksOnce ==
    \A h \in DamageHanded :
        h.before.visibility = "Unknown" =>
            Cardinality(DamageOf(damage.queries, h.vp)) = 1

(***************************************************************************)
(* C12 as amended: a ViewportInvalidate call on a viewport whose cached    *)
(* visibility is Unknown asks the owning window for its visibility exactly *)
(* once when that window is not the main window, and asks no window when   *)
(* it is the main window.                                                  *)
(***************************************************************************)
InvalidateUnknownAsksOwner ==
    \A h \in DamageHanded :
        h.before.visibility = "Unknown" =>
            IF windows[h.owner].classification = "MainWindow"
            THEN DamageOf(damage.queries, h.vp) = {}
            ELSE /\ Cardinality(DamageOf(damage.queries, h.vp)) = 1
                 /\ \A j \in DamageOf(damage.queries, h.vp) :
                        damage.queries[j].w = h.owner

\* One call found the viewports of both windows with unknown visibility and
\* asked the ride window only.
InvalidateUnknownAsksOwnerWitness ==
    /\ \E h \in DamageHanded :
          /\ h.before.visibility = "Unknown"
          /\ h.owner = "ride"
          /\ Cardinality(DamageOf(damage.queries, h.vp)) = 1
    /\ \E h \in DamageHanded :
          /\ h.before.visibility = "Unknown"
          /\ h.owner = "main"
          /\ DamageOf(damage.queries, h.vp) = {}

(***************************************************************************)
(* C13 as stated: when the damage rectangle lies entirely left of, right   *)
(* of, above or below the view rectangle of the viewport,                  *)
(* ViewportInvalidate gives no rectangle to GfxSetDirtyBlocks.             *)
(***************************************************************************)
InvalidateOutsideMarksNothing ==
    \A h \in DamageHanded :
        Disjoint(h.rect, ViewRect(h.before)) => DamageOf(damage.dirty, h.vp) = {}

InvalidateSamePointForAll ==
    damage.pc = "world" =>
        \A h \in DamageHanded :
            h.rect = WorldRect(h.before.rotation, damage.x + 16, damage.y + 16,
                               damage.z0, damage.z1)

(***************************************************************************)
(* 32-bit words, bit 0 first, for the zoom masks of ViewportPaint and of   *)
(* GetMapCoordinatesFromPosWindow.                                         *)
(***************************************************************************)
\* The two's complement bits of an int32_t
Bits32(v) == [i \in 0..31 |-> IF i = 31 THEN v < 0 ELSE (v \div Pow2(i)) % 2 = 1]

RECURSIVE BitsSum(_, _)
BitsSum(bits, i) ==
    IF i > 30 THEN 0 ELSE (IF bits[i] THEN Pow2(i) ELSE 0) + BitsSum(bits, i + 1)

\* The int32_t a 32-bit word converts to
Value32(bits) == IF bits[31] THEN BitsSum(bits, 0) - 2147483647 - 1 ELSE BitsSum(bits, 0)

\* 0xFFFFFFFF
AllOnes32 == [i \in 0..31 |-> TRUE]

BitAnd32(a, b) == [i \in 0..31 |-> a[i] /\ b[i]]

\* ZoomLevel::ApplyTo on an unsigned 32-bit word: the shifts of ZoomApplyTo,
\* zeros shifted in
ZoomApplyToWord(zoom, bits) ==
    IF zoom >= 0
    THEN [i \in 0..31 |-> IF i + zoom <= 31 THEN bits[i + zoom] ELSE FALSE]
    ELSE [i \in 0..31 |-> IF i + zoom >= 0 THEN bits[i + zoom] ELSE FALSE]

\* ViewportPaint, line 1029: bitmask
PaintBitmask(zoom) ==
    IF zoom >= 0 THEN BitAnd32(AllOnes32, ZoomApplyToWord(zoom, AllOnes32)) ELSE AllOnes32

\* ViewportPaint, lines 1032-1035: a coordinate or extent after &= bitmask
PaintMasked(zoom, v) == Value32(BitAnd32(Bits32(v), PaintBitmask(zoom)))

\* GetMapCoordinatesFromPosWindow, lines 1810-1814: viewLoc.x after the mask
PickMasked(zoom, v) ==
    IF zoom > 0
    THEN Value32(BitAnd32(Bits32(v),
                          BitAnd32(ZoomApplyToWord(zoom, AllOnes32), AllOnes32)))
    ELSE v

(***************************************************************************)
(* SpecCalc: the coordinate transform and the zoom scaling computed on     *)
(* inputs from bounded ranges; calc holds the inputs and the results.      *)
(***************************************************************************)
\* World coordinates of the round trip are within -MaxCoord..MaxCoord
MaxCoord == 4

\* Zoom levels are within -MaxZoom..MaxZoom
MaxZoom == 2

\* Scaled values are within -MaxValue..MaxValue
MaxValue == 12

CalcHeights == {-3, 0, 8}

InitCalc ==
    /\ InitRegistry
    /\ InitPaintIdle
    /\ InitPickIdle
    /\ InitDamageIdle
    /\ InitCalcIdle

\* A world point is projected and the screen point taken back with the
\* point's own height.
CalcRoundTrip ==
    /\ calc.op = "none"
    /\ \E rotation \in 0..3, x \in -MaxCoord..MaxCoord, y \in -MaxCoord..MaxCoord,
          z \in CalcHeights :
          \E screen \in {Translate3DTo2DWithZ(rotation, XYZ(x, y, z))} :
              calc' = [op |-> "roundtrip", rotation |-> rotation, pos |-> XYZ(x, y, z),
                       screen |-> screen,
                       map |-> ViewportPosToMapPos(screen, z, rotation)]
    /\ UNCHANGED <<registryVars, paintVars, pickVars, damageVars, gShowGridLinesRefCount>>

\* A value is scaled by a zoom level and back, and masked the way
\* ViewportPaint and picking mask their coordinates.
CalcZoom ==
    /\ calc.op = "none"
    /\ \E zoom \in -MaxZoom..MaxZoom, v \in -MaxValue..MaxValue :
          calc' = [op |-> "zoom", zoom |-> zoom, v |-> v,
                   applied |-> ZoomApplyTo(zoom, v),
                   inversed |-> ZoomApplyInversedTo(zoom, ZoomApplyTo(zoom, v)),
                   paintMasked |-> PaintMasked(zoom, v),
                   pickMasked |-> PickMasked(zoom, v)]
    /\ UNCHANGED <<registryVars, paintVars, pickVars, damageVars, gShowGridLinesRefCount>>

\* Screen x of the viewports moved under SpecCalc: wholly off the left edge,
\* partly off it, inside the screen, partly off the right edge
MoveScreenXs == {-8, -2, 4, 12}

\* Screen y of the same viewports: wholly above the screen and inside it
MoveScreenYs == {-6, 2}

\* ViewportMove is called on a viewport of a window: the viewport before and
\* after the call and the path the call took.
CalcMove ==
    /\ calc.op = "none"
    /\ \E zoom \in {-1, 0, 1}, px \in MoveScreenXs, py \in MoveScreenYs,
          vx \in {0, 4}, cx \in 3..6, cy \in {0, 1}, wf7 \in BOOLEAN,
          dirtyOptimisations \in BOOLEAN :
          \E window \in {[InitWindow("Ride") EXCEPT
                              !.flags = IF wf7 THEN {"WF_7"} ELSE {}]},
             before \in {[NewViewport(XY(px, py), 8, 6,
                                      CoordinateFocus(XYZ(0, 0, 0), zoom), FALSE)
                             EXCEPT !.viewPos = XY(vx, 0)]} :
              \E moved \in {ViewportMoveCall(XY(cx, cy), window, before,
                                             dirtyOptimisations)} :
                  calc' = [op |-> "move", coords |-> XY(cx, cy), window |-> window,
                           before |-> before, after |-> moved.viewport,
                           path |-> moved.path]
    /\ UNCHANGED <<registryVars, paintVars, pickVars, damageVars, gShowGridLinesRefCount>>

\* Saved view positions of the ticked window: beyond each map edge by more
\* than the map's width, and near the middle of the map
ClampSavedXs == {-2 * MapLimit - 2, -2 * MapLimit - 1, -1, 0, 2 * MapLimit + 1, 2 * MapLimit + 2}

ClampSavedYs == {-MapLimit - 2, -MapLimit - 1, 0, 1, MapLimit + 1, MapLimit + 2}

\* ViewportUpdatePosition is called twice in a row on a window without a
\* target sprite: the saved view position before, between and after.
CalcClamp ==
    /\ calc.op = "none"
    /\ \E rotation \in 0..3, sx \in ClampSavedXs, sy \in ClampSavedYs, odd \in {0, 1} :
          \E window \in {[InitWindow("Ride") EXCEPT !.savedViewPos = XY(sx, sy)]},
             viewport \in {[NewViewport(XY(2, 2), 8 + odd, 6 + odd,
                                        CoordinateFocus(XYZ(0, 0, 0), 0), FALSE)
                               EXCEPT !.rotation = rotation]} :
              \E first \in {ViewportUpdatePosition(window, viewport, FALSE, FALSE)} :
                  \E second \in {ViewportUpdatePosition(first.window, first.viewport,
                                                        FALSE, FALSE)} :
                      calc' = [op |-> "clamp", viewport |-> viewport,
                               saved |-> window.savedViewPos,
                               first |-> first.window.savedViewPos,
                               second |-> second.window.savedViewPos,
                               viewPos |-> second.viewport.viewPos]
    /\ UNCHANGED <<registryVars, paintVars, pickVars, damageVars, gShowGridLinesRefCount>>

\* The caller has used the result.
CalcReturn ==
    /\ calc.op # "none"
    /\ calc' = CalcIdle
    /\ UNCHANGED <<registryVars, paintVars, pickVars, damageVars, gShowGridLinesRefCount>>

NextCalc == CalcRoundTrip \/ CalcZoom \/ CalcMove \/ CalcClamp \/ CalcReturn

SpecCalc == InitCalc /\ [][NextCalc]_vars

ZoomRoundTripAndMasks ==
    calc.op = "zoom" =>
        /\ calc.inversed = IF calc.zoom >= 0
                           THEN calc.v - (calc.v % Pow2(calc.zoom))
                           ELSE calc.v
        /\ calc.paintMasked = calc.inversed
        /\ calc.pickMasked = calc.inversed

(***************************************************************************)
(* SpecCreate: windows create viewports on reachable and on null focus     *)
(* coordinates, while the followed entity boards and leaves a ride.        *)
(***************************************************************************)
InitCreate == InitRegistry /\ InitPaintIdle /\ InitPickIdle /\ InitRestIdle

\* A coordinate on the map, the null coordinate, and the entity's position
CreateFocuses ==
    {CoordinateFocus(XYZ(32, 32, 0), 0),
     CoordinateFocus(XYZ(LOCATION_NULL, 0, 0), 0),
     EntityFocus(1, 0)}

CreateCall ==
    \E w \in WindowIds, focus \in CreateFocuses :
        ViewportCreate(w, XY(4, 2), 8, 6, focus, FALSE)

\* An entity on a ride has the null location; it gets one back on leaving.
CreateEntityBoards ==
    /\ entities[1].x # LOCATION_NULL
    /\ entities' = [entities EXCEPT ![1].x = LOCATION_NULL]
    /\ UNCHANGED <<viewports, windows, lastCall, paintVars, pickVars, damageVars,
                   calcVars>>

CreateEntityLeaves ==
    /\ entities[1].x = LOCATION_NULL
    /\ entities' = [entities EXCEPT ![1].x = 64]
    /\ UNCHANGED <<viewports, windows, lastCall, paintVars, pickVars, damageVars,
                   calcVars>>

NextCreate == CreateCall \/ CreateEntityBoards \/ CreateEntityLeaves

SpecCreate == InitCreate /\ [][NextCreate]_vars

\* C18: a ViewportCreate call whose focus coordinate is null (the call that
\* appended a viewport and returned from the error branch) leaves the
\* window's saved view position as it was before the call, and the new
\* viewport's view position stays at its initial value: nothing is centred.
CreateNullFocusKeepsSavedViewPos ==
    [][(/\ Len(viewports') = Len(viewports) + 1
        /\ lastCall'.op = "ViewportCreate"
        /\ lastCall'.result = "uncentred")
       => /\ windows'[lastCall'.w].savedViewPos = windows[lastCall'.w].savedViewPos
          /\ viewports'[Len(viewports')].viewPos = XY(0, 0)]_vars

\* A window whose saved view position was set by an earlier create has made
\* a create call on a null coordinate.
CreateNullFocusKeepsSavedViewPosWitness ==
    /\ lastCall.op = "ViewportCreate"
    /\ lastCall.result = "uncentred"
    /\ windows[lastCall.w].savedViewPos # XY(0, 0)
    /\ windows[lastCall.w].viewport = viewports[Len(viewports)].id

\* The scaled pixel delta of a ViewportMove call is zero on both axes.
MoveDeltaIsZero ==
    /\ ZoomApplyInversedTo(calc.before.zoom, calc.before.viewPos.x)
           = ZoomApplyInversedTo(calc.before.zoom, calc.coords.x)
    /\ ZoomApplyInversedTo(calc.before.zoom, calc.before.viewPos.y)
           = ZoomApplyInversedTo(calc.before.zoom, calc.coords.y)

(***************************************************************************)
(* C20 as stated: when the inverse-zoom-scaled pixel delta between the     *)
(* current and the requested view position is zero on both axes,           *)
(* ViewportMove changes no viewport field and issues no repaint or blit.   *)
(***************************************************************************)
MoveZeroDeltaChangesNothing ==
    (calc.op = "move" /\ MoveDeltaIsZero) =>
        (calc.after = calc.before /\ calc.path = "unchanged")

(***************************************************************************)
(* C20 as amended: when the inverse-zoom-scaled pixel delta between the    *)
(* current and the requested view position is zero on both axes,           *)
(* ViewportMove stores the requested view position and does nothing else:  *)
(* no other viewport field changes and no repaint or blit is issued.       *)
(***************************************************************************)
MoveZeroDeltaStoresViewPos ==
    (calc.op = "move" /\ MoveDeltaIsZero) =>
        /\ calc.after = [calc.before EXCEPT !.viewPos = calc.coords]
        /\ calc.path = "unchanged"

\* A move by less than one scaled pixel on a viewport that hangs off the
\* screen, in a window with the repaint-only display mode
MoveZeroDeltaStoresViewPosWitness ==
    /\ calc.op = "move"
    /\ MoveDeltaIsZero
    /\ calc.coords # calc.before.viewPos
    /\ calc.before.pos.x < 0
    /\ "WF_7" \in calc.window.flags
    /\ calc.after.viewPos = calc.coords
    /\ calc.path = "unchanged"

\* A ViewportMove call reached the clamp to the device screen and the clamp
\* left a width or a height that is not positive.
MoveClampLeavesNothing ==
    /\ calc.path \notin {"unchanged", "repaint"}
    /\ \/ MoveClampX([calc.before EXCEPT !.viewPos = calc.coords]).width <= 0
       \/ MoveClampY(MoveClampX([calc.before EXCEPT !.viewPos = calc.coords])).height <= 0

(***************************************************************************)
(* C21 as stated: when clamping the viewport rectangle to the device       *)
(* screen leaves a width or height that is not positive, no blit or        *)
(* repaint is issued and every field of the viewport has the value it had  *)
(* before the ViewportMove call.                                           *)
(***************************************************************************)
MoveAbortRestoresAll ==
    (calc.op = "move" /\ MoveClampLeavesNothing) =>
        /\ calc.path \in {"abort_width", "abort_height"}
        /\ calc.after = calc.before

(***************************************************************************)
(* C21 as amended: when clamping the viewport rectangle to the device      *)
(* screen leaves a width or height that is not positive, no blit or        *)
(* repaint is issued and every field of the viewport other than the view   *)
(* position has the value it had before the ViewportMove call; the view    *)
(* position is the requested one.                                          *)
(***************************************************************************)
MoveAbortRestoresAllButViewPos ==
    (calc.op = "move" /\ MoveClampLeavesNothing) =>
        /\ calc.path \in {"abort_width", "abort_height"}
        /\ calc.after = [calc.before EXCEPT !.viewPos = calc.coords]

\* A viewport wholly above the screen, partly off its left edge, is moved
\* at a zoom level that scales the clamp: the x clamp changed four fields
\* before the y clamp aborted.
MoveAbortRestoresAllButViewPosWitness ==
    /\ calc.op = "move"
    /\ MoveClampLeavesNothing
    /\ calc.path = "abort_height"
    /\ calc.before.pos.x = -2
    /\ calc.before.zoom = 1
    /\ calc.after.pos.x = -2
    /\ calc.after.width = calc.before.width

(***************************************************************************)
(* C34: on every return path of ViewportMove (zero delta, repaint-only     *)
(* window mode, aborted clamp, completed shift, dirty-rect optimisation    *)
(* inactive) the viewport's screen position, width, height, view_width,    *)
(* view_height, zoom, rotation and flags equal their values at entry and   *)
(* its view position equals the requested coordinate.                      *)
(***************************************************************************)
MoveKeepsFrameOnEveryPath ==
    calc.op = "move" =>
        /\ calc.path \in {"unchanged", "repaint", "abort_width", "abort_height",
                          "shift", "clamped"}
        /\ calc.after.pos = calc.before.pos
        /\ calc.after.width = calc.before.width
        /\ calc.after.height = calc.before.height
        /\ calc.after.view_width = calc.before.view_width
        /\ calc.after.view_height = calc.before.view_height
        /\ calc.after.zoom = calc.before.zoom
        /\ calc.after.rotation = calc.before.rotation
        /\ calc.after.flags = calc.before.flags
        /\ calc.after.viewPos = calc.coords

\* A viewport that hangs over the right edge of the screen is moved with
\* the dirty-rect optimisation inactive: the clamp cut its width and the
\* call returned it whole, at the requested view position.
MoveKeepsFrameOnEveryPathWitness ==
    /\ calc.op = "move"
    /\ calc.path = "clamped"
    /\ calc.before.pos.x + calc.before.width > ScreenWidth
    /\ MoveClampX([calc.before EXCEPT !.viewPos = calc.coords]).width < calc.before.width
    /\ calc.after.width = calc.before.width
    /\ calc.before.viewPos # calc.coords
    /\ calc.after.viewPos = calc.coords

\* The map coordinate under the middle of a view at the saved position
ClampMapCoord(saved) ==
    ViewportPosToMapPos(XY(saved.x + TruncDiv(calc.viewport.view_width, 2),
                           saved.y + TruncDiv(calc.viewport.view_height, 2)),
                        0, calc.viewport.rotation)

OnMap(mapCoord) ==
    /\ kMapMinimumXY <= mapCoord.x /\ mapCoord.x <= GetMapSizeMinus2.x
    /\ kMapMinimumXY <= mapCoord.y /\ mapCoord.y <= GetMapSizeMinus2.y

(***************************************************************************)
(* C35: the map-edge clamp of the fixed-coordinate focus step is           *)
(* idempotent: after one ViewportUpdatePosition tick with no target        *)
(* sprite, a second tick with the same map size, rotation and view size    *)
(* leaves the window's saved view position unchanged, for every rotation   *)
(* and every starting saved view position; the position it settles on has  *)
(* the middle of the view on the map.                                      *)
(***************************************************************************)
MapEdgeClampIdempotent ==
    calc.op = "clamp" =>
        /\ calc.second = calc.first
        /\ OnMap(ClampMapCoord(calc.first))
        /\ OnMap(ClampMapCoord(calc.saved)) => calc.first = calc.saved

\* In a rotated view the first tick has pulled the saved view position back
\* from beyond one map edge, not to a corner of the map, and the second
\* tick has moved the view there and left the saved position alone.
MapEdgeClampIdempotentWitness ==
    /\ calc.op = "clamp"
    /\ calc.viewport.rotation = 3
    /\ ~OnMap(ClampMapCoord(calc.saved))
    /\ calc.first # calc.saved
    /\ calc.second = calc.first
    /\ calc.viewPos = calc.first
    /\ ClampMapCoord(calc.first).x \in {kMapMinimumXY, GetMapSizeMinus2.x}
    /\ ClampMapCoord(calc.first).y \notin {kMapMinimumXY, GetMapSizeMinus2.y}

(***************************************************************************)
(* The shift of a viewport's pixels: ViewportShiftPixels and               *)
(* ViewportRedrawAfterShift. The window list is g_window_list in its       *)
(* order; a window of it has a rectangle, its flags and its viewport. The  *)
(* operators return the calls of WindowDrawAll and DrawingEngineCopyRect   *)
(* in the order they are made.                                             *)
(***************************************************************************)
ShiftWindow(x, y, width, height, flags, viewport) ==
    [windowPos |-> XY(x, y), width |-> width, height |-> height, flags |-> flags,
     viewport |-> viewport]

\* WindowDrawAll(dpi, left, top, right, bottom), made by the named function
DrawAll(by, left, top, right, bottom) ==
    [kind |-> "draw", by |-> by, left |-> left, top |-> top, right |-> right,
     bottom |-> bottom]

\* DrawingEngineCopyRect(x, y, width, height, dx, dy)
CopyRect(x, y, width, height, dx, dy) ==
    [kind |-> "copy", by |-> "ViewportRedrawAfterShift", left |-> x, top |-> y,
     right |-> x + width, bottom |-> y + height, dx |-> dx, dy |-> dy]

\* The strips of lines 432 and 438 not narrowed by lines 420 and 427
RedrawShifted_FullWidthStrips(viewport, coords) ==
    LET left == viewport.pos.x
        right == viewport.pos.x + viewport.width
        top == viewport.pos.y
        bottom == viewport.pos.y + viewport.height
        left1 == left
        right1 == right
    IN  IF Abs(coords.x) < viewport.width /\ Abs(coords.y) < viewport.height
        THEN <<CopyRect(viewport.pos.x, viewport.pos.y, viewport.width,
                        viewport.height, coords.x, coords.y)>>
             \o (IF coords.x > 0
                 THEN <<DrawAll("ViewportRedrawAfterShift", left, top,
                                viewport.pos.x + coords.x, bottom)>>
                 ELSE IF coords.x < 0
                 THEN <<DrawAll("ViewportRedrawAfterShift",
                                viewport.pos.x + viewport.width + coords.x, top,
                                right, bottom)>>
                 ELSE <<>>)
             \o (IF coords.y > 0
                 THEN <<DrawAll("ViewportRedrawAfterShift", left1, top, right1,
                                viewport.pos.y + coords.y)>>
                 ELSE IF coords.y < 0
                 THEN <<DrawAll("ViewportRedrawAfterShift", left1,
                                viewport.pos.y + viewport.height + coords.y,
                                right1, bottom)>>
                 ELSE <<>>)
        ELSE <<DrawAll("ViewportRedrawAfterShift", left, top, right, bottom)>>

\* ViewportRedrawAfterShift, lines 395-441: no window is left to carve by
RedrawShifted(viewport, coords) ==
    LET left == viewport.pos.x
        right == viewport.pos.x + viewport.width
        top == viewport.pos.y
        bottom == viewport.pos.y + viewport.height
        left1 == IF coords.x > 0 THEN left + coords.x ELSE left
        right1 == IF coords.x < 0 THEN right + coords.x ELSE right
    IN  IF Abs(coords.x) < viewport.width /\ Abs(coords.y) < viewport.height
        THEN <<CopyRect(viewport.pos.x, viewport.pos.y, viewport.width,
                        viewport.height, coords.x, coords.y)>>
             \o (IF coords.x > 0
                 THEN <<DrawAll("ViewportRedrawAfterShift", left, top,
                                viewport.pos.x + coords.x, bottom)>>
                 ELSE IF coords.x < 0
                 THEN <<DrawAll("ViewportRedrawAfterShift",
                                viewport.pos.x + viewport.width + coords.x, top,
                                right, bottom)>>
                 ELSE <<>>)
             \o (IF coords.y > 0
                 THEN <<DrawAll("ViewportRedrawAfterShift", left1, top, right1,
                                viewport.pos.y + coords.y)>>
                 ELSE IF coords.y < 0
                 THEN <<DrawAll("ViewportRedrawAfterShift", left1,
                                viewport.pos.y + viewport.height + coords.y,
                                right1, bottom)>>
                 ELSE <<>>)
        ELSE <<DrawAll("ViewportRedrawAfterShift", left, top, right, bottom)>>

\* ViewportRedrawAfterShift, lines 337-340: the window is passed over
RedrawSkips(window, viewport) ==
    \/ viewport.id = window.viewport
    \/ viewport.pos.x + viewport.width <= window.windowPos.x
    \/ viewport.pos.x >= window.windowPos.x + window.width
    \/ viewport.pos.y + viewport.height <= window.windowPos.y
    \/ viewport.pos.y >= window.windowPos.y + window.height

\* ViewportRedrawAfterShift, lines 351-374: the part of the viewport before
\* the cut at screen x and the part after it
CutX(viewport, x) ==
    LET first == [viewport EXCEPT
                     !.width = x - viewport.pos.x,
                     !.view_width = ZoomApplyTo(viewport.zoom, x - viewport.pos.x)]
        width == viewport.width - first.width
    IN  <<first,
          [first EXCEPT
              !.pos.x = @ + first.width,
              !.viewPos.x = @ + ZoomApplyTo(viewport.zoom, first.width),
              !.width = width,
              !.view_width = ZoomApplyTo(viewport.zoom, width)]>>

\* ViewportRedrawAfterShift, lines 375-398: the same at screen y; the lines
\* assign view_width, not view_height
CutY(viewport, y) ==
    LET first == [viewport EXCEPT
                     !.height = y - viewport.pos.y,
                     !.view_width = ZoomApplyTo(viewport.zoom, viewport.width)]
    IN  <<first,
          [first EXCEPT
              !.pos.y = @ + first.height,
              !.viewPos.y = @ + ZoomApplyTo(viewport.zoom, first.height),
              !.height = viewport.height - first.height,
              !.view_width = ZoomApplyTo(viewport.zoom, viewport.width)]>>

RedrawCut_OnlyX(window, viewport) == IF viewport.pos.x < window.windowPos.x THEN CutX(viewport, window.windowPos.x) ELSE IF viewport.pos.x + viewport.width > window.windowPos.x + window.width THEN CutX(viewport, window.windowPos.x + window.width) ELSE <<>>

\* ViewportRedrawAfterShift, lines 351-398: the two parts the window cuts
\* the viewport into, none when the window covers all of it
RedrawCut(window, viewport) ==
    IF viewport.pos.x < window.windowPos.x
    THEN CutX(viewport, window.windowPos.x)
    ELSE IF viewport.pos.x + viewport.width > window.windowPos.x + window.width
    THEN CutX(viewport, window.windowPos.x + window.width)
    ELSE IF viewport.pos.y < window.windowPos.y
    THEN CutY(viewport, window.windowPos.y)
    ELSE IF viewport.pos.y + viewport.height > window.windowPos.y + window.height
    THEN CutY(viewport, window.windowPos.y + window.height)
    ELSE <<>>

\* ViewportRedrawAfterShift, lines 331-442, with the window at index i of
\* the list; an index beyond the list is nullptr
RECURSIVE ViewportRedrawAfterShift(_, _, _, _)
ViewportRedrawAfterShift(list, i, viewport, coords) ==
    IF i > Len(list)
    THEN RedrawShifted(viewport, coords)
    ELSE IF RedrawSkips(list[i], viewport)
    THEN ViewportRedrawAfterShift(list, i + 1, viewport, coords)
    ELSE LET cut == RedrawCut(list[i], viewport)
         IN  IF cut = <<>>
             THEN <<>>
             ELSE ViewportRedrawAfterShift(list, i, cut[1], coords)
                  \o ViewportRedrawAfterShift(list, i, cut[2], coords)

\* ViewportRedrawAfterShift, lines 331-403: the viewport as each call of
\* the recursion sees it, in call order; a call with nullptr is a leaf
RECURSIVE RedrawCarve(_, _, _)
RedrawCarve(list, i, viewport) ==
    <<[viewport |-> viewport, leaf |-> i > Len(list)]>>
    \o (IF i > Len(list)
        THEN <<>>
        ELSE IF RedrawSkips(list[i], viewport)
        THEN RedrawCarve(list, i + 1, viewport)
        ELSE LET cut == RedrawCut(list[i], viewport)
             IN  IF cut = <<>>
                 THEN <<>>
                 ELSE RedrawCarve(list, i, cut[1]) \o RedrawCarve(list, i, cut[2]))

\* The clipping of lines 481-489 left out
ShiftOverlap_WholeWindow(w, viewport) ==
    [left |-> w.windowPos.x, right |-> w.windowPos.x + w.width,
     top |-> w.windowPos.y, bottom |-> w.windowPos.y + w.height]

\* ViewportShiftPixels, lines 476-489: the window list entry's rectangle
\* without what lies outside the viewport
ShiftOverlap(w, viewport) ==
    [left |-> Max2(w.windowPos.x, viewport.pos.x),
     right |-> Min2(w.windowPos.x + w.width, viewport.pos.x + viewport.width),
     top |-> Max2(w.windowPos.y, viewport.pos.y),
     bottom |-> Min2(w.windowPos.y + w.height, viewport.pos.y + viewport.height)]

\* ViewportShiftPixels, lines 459-492: the window is drawn
ShiftRepaints(w, viewport) ==
    /\ "WF_TRANSPARENT" \in w.flags
    /\ w.viewport # viewport.id
    /\ ~(viewport.pos.x + viewport.width <= w.windowPos.x)
    /\ ~(w.windowPos.x + w.width <= viewport.pos.x)
    /\ ~(viewport.pos.y + viewport.height <= w.windowPos.y)
    /\ ~(w.windowPos.y + w.height <= viewport.pos.y)
    /\ ShiftOverlap(w, viewport).left < ShiftOverlap(w, viewport).right
    /\ ShiftOverlap(w, viewport).top < ShiftOverlap(w, viewport).bottom

\* ViewportShiftPixels, lines 455-495: the loop from index i on
RECURSIVE ShiftRepaintsFrom(_, _, _)
ShiftRepaintsFrom(list, i, viewport) ==
    IF i > Len(list)
    THEN <<>>
    ELSE (IF ShiftRepaints(list[i], viewport)
          THEN LET o == ShiftOverlap(list[i], viewport)
               IN  <<DrawAll("ViewportShiftPixels", o.left, o.top, o.right, o.bottom)>>
          ELSE <<>>)
         \o ShiftRepaintsFrom(list, i + 1, viewport)

\* ViewportShiftPixels, lines 453-498; it is the index of the window in the
\* list, WindowGetIterator(window)
ViewportShiftPixels(list, it, viewport, x_diff, y_diff) ==
    ShiftRepaintsFrom(list, it, viewport)
    \o ViewportRedrawAfterShift(list, it, viewport, XY(x_diff, y_diff))


\* ViewportMove, lines 516-584: the calls of WindowDrawAll and
\* DrawingEngineCopyRect of a move of the viewport of the window at index it
\* of the list
ViewportMoveDraws(coords, list, it, viewport, dirtyOptimisations) ==
    LET path == MovePath(coords, list[it], viewport, dirtyOptimisations)
        moved == [viewport EXCEPT !.viewPos = coords]
        diff == MoveDiff(coords, viewport)
    IN  IF path = "repaint"
        THEN IF dirtyOptimisations
             THEN <<DrawAll("ViewportMove", Max2(viewport.pos.x, 0),
                            Max2(viewport.pos.y, 0),
                            Min2(viewport.pos.x + viewport.width, ScreenWidth),
                            Min2(viewport.pos.y + viewport.height, ScreenHeight))>>
             ELSE <<>>
        ELSE IF path = "shift"
        THEN ViewportShiftPixels(list, it, MoveClampY(MoveClampX(moved)), diff.x, diff.y)
        ELSE <<>>

(***************************************************************************)
(* SpecShift: ViewportMove is called on the viewport of a window that has  *)
(* two other windows below, above or around it in the window list; the     *)
(* drawing engine has dirty optimisations.                                 *)
(***************************************************************************)
\* Rectangles of the other windows on the 16 x 12 screen: over the left of
\* the viewport, over its lower right corner, away from it, over all of it
ShiftRects ==
    {<<0, 0, 6, 12>>, <<8, 5, 8, 7>>, <<14, 0, 2, 2>>, <<0, 0, 16, 12>>}

ShiftOthers ==
    {ShiftWindow(r[1], r[2], r[3], r[4], flags, nullptr) :
        r \in ShiftRects, flags \in {{}, {"WF_TRANSPARENT"}}}

\* The requested view positions: a step right, a step left and down, a step
\* up, and a jump wider than the viewport
ShiftCoords == {XY(1, 0), XY(-2, 1), XY(0, -3), XY(9, 0)}

\* The list with the window put in at index it
ShiftInsert(list, it, window) ==
    SubSeq(list, 1, it - 1) \o <<window>> \o SubSeq(list, it, Len(list))

ShiftMove ==
    /\ calc.op = "none"
    /\ \E a \in ShiftOthers, b \in ShiftOthers, it \in 1..3, px \in {-2, 4},
          zoom \in {0, 1}, coords \in ShiftCoords :
          \E viewport \in {NewViewport(XY(px, 2), 8, 6,
                                        CoordinateFocus(XYZ(0, 0, 0), zoom), FALSE)} :
              \E list \in {ShiftInsert(<<a, b>>, it,
                                       ShiftWindow(px, 0, 8, 10, {}, viewport.id))} :
                  calc' = [op |-> "shift", list |-> list, it |-> it,
                           viewport |-> MoveClampY(MoveClampX(
                                            [viewport EXCEPT !.viewPos = coords])),
                           path |-> MovePath(coords, list[it], viewport, TRUE),
                           events |-> ViewportMoveDraws(coords, list, it, viewport,
                                                        TRUE),
                           coords |-> MoveDiff(coords, viewport),
                           carve |-> IF MovePath(coords, list[it], viewport, TRUE) = "shift"
                                     THEN RedrawCarve(list, it, MoveClampY(MoveClampX(
                                              [viewport EXCEPT !.viewPos = coords])))
                                     ELSE <<>>]
    /\ UNCHANGED <<registryVars, paintVars, pickVars, damageVars, gShowGridLinesRefCount>>

NextShift == ShiftMove \/ CalcReturn

SpecShift == InitCalc /\ [][NextShift]_vars

\* The window at index i of the list of a shift has the transparent flag,
\* is not the viewport's own and overlaps the rectangle of the viewport.
ShiftTransparentOver(i) ==
    /\ "WF_TRANSPARENT" \in calc.list[i].flags
    /\ calc.list[i].viewport # calc.viewport.id
    /\ Max2(calc.list[i].windowPos.x, calc.viewport.pos.x)
          < Min2(calc.list[i].windowPos.x + calc.list[i].width,
                 calc.viewport.pos.x + calc.viewport.width)
    /\ Max2(calc.list[i].windowPos.y, calc.viewport.pos.y)
          < Min2(calc.list[i].windowPos.y + calc.list[i].height,
                 calc.viewport.pos.y + calc.viewport.height)

\* ViewportShiftPixels has repainted the overlap of the window at index i
\* with the viewport, before every block copy.
ShiftRepaintedFirst(i) ==
    \E k \in DOMAIN calc.events :
        /\ calc.events[k] =
              DrawAll("ViewportShiftPixels",
                      Max2(calc.list[i].windowPos.x, calc.viewport.pos.x),
                      Max2(calc.list[i].windowPos.y, calc.viewport.pos.y),
                      Min2(calc.list[i].windowPos.x + calc.list[i].width,
                           calc.viewport.pos.x + calc.viewport.width),
                      Min2(calc.list[i].windowPos.y + calc.list[i].height,
                           calc.viewport.pos.y + calc.viewport.height))
        /\ \A j \in DOMAIN calc.events : calc.events[j].kind = "copy" => k < j

(***************************************************************************)
(* C28 as stated: during a viewport shift, every window other than the     *)
(* viewport's own that has the transparent flag and overlaps the           *)
(* viewport's rectangle has its overlap with that rectangle repainted, and *)
(* these repaints come before any block pixel copy of the shift.           *)
(***************************************************************************)
ShiftRepaintsEveryTransparent ==
    (calc.op = "shift" /\ calc.path = "shift") =>
        \A i \in DOMAIN calc.list : ShiftTransparentOver(i) => ShiftRepaintedFirst(i)

(***************************************************************************)
(* C28 as amended: during a viewport shift, every window that comes after  *)
(* the viewport's own in the window list, has the transparent flag and     *)
(* overlaps the viewport's rectangle has its overlap with that rectangle   *)
(* repainted, and these repaints come before any block pixel copy of the   *)
(* shift.                                                                  *)
(***************************************************************************)
ShiftRepaintsTransparentAbove ==
    (calc.op = "shift" /\ calc.path = "shift") =>
        \A i \in DOMAIN calc.list :
            (i > calc.it /\ ShiftTransparentOver(i)) => ShiftRepaintedFirst(i)

\* A shift with a transparent window over the lower right corner of the
\* viewport later in the list and a transparent window over its left
\* earlier in the list: the first was repainted, pixels were copied.
ShiftRepaintsTransparentAboveWitness ==
    /\ calc.op = "shift"
    /\ calc.path = "shift"
    /\ calc.it = 2
    /\ ShiftTransparentOver(1)
    /\ ShiftTransparentOver(3)
    /\ calc.list[3].windowPos = XY(8, 5)
    /\ ShiftRepaintedFirst(3)
    /\ \E j \in DOMAIN calc.events : calc.events[j].kind = "copy"

(***************************************************************************)
(* C31: every clamped or carved viewport state that ViewportMove and       *)
(* ViewportRedrawAfterShift produce, the viewport as seen at each          *)
(* recursive call and at each leaf of the carving, has                     *)
(* view_width = zoom.apply(width) and view_height = zoom.apply(height).    *)
(***************************************************************************)
CarvedViewportsKeepZoomInvariant ==
    calc.op = "shift" =>
        \A k \in DOMAIN calc.carve :
            /\ calc.carve[k].viewport.view_width
                  = ZoomApplyTo(calc.carve[k].viewport.zoom, calc.carve[k].viewport.width)
            /\ calc.carve[k].viewport.view_height
                  = ZoomApplyTo(calc.carve[k].viewport.zoom, calc.carve[k].viewport.height)

\* The screen pixel (x, y) lies in the rectangle of the viewport state
InViewportRect(viewport, x, y) ==
    /\ viewport.pos.x <= x /\ x < viewport.pos.x + viewport.width
    /\ viewport.pos.y <= y /\ y < viewport.pos.y + viewport.height

\* The screen pixel lies in a window stacked after the owner of the shifted
\* viewport
CoveredAfterOwner(x, y) ==
    \E i \in DOMAIN calc.list :
        /\ i > calc.it
        /\ calc.list[i].windowPos.x <= x
        /\ x < calc.list[i].windowPos.x + calc.list[i].width
        /\ calc.list[i].windowPos.y <= y
        /\ y < calc.list[i].windowPos.y + calc.list[i].height

\* The leaves of the carving that hold the screen pixel
LeavesAt(x, y) ==
    {k \in DOMAIN calc.carve :
        calc.carve[k].leaf /\ InViewportRect(calc.carve[k].viewport, x, y)}

(***************************************************************************)
(* C32: ViewportRedrawAfterShift terminates, and the leaf rectangles on    *)
(* which it copies and repaints are pairwise disjoint and cover exactly    *)
(* the viewport rectangle minus the windows stacked after the owner: each  *)
(* pixel of the viewport that no such window covers lies in exactly one    *)
(* leaf, every other pixel in none, and no block copy touches a pixel that *)
(* such a window covers.                                                   *)
(***************************************************************************)
CarveLeavesPartitionUncovered ==
    (calc.op = "shift" /\ calc.path = "shift") =>
        /\ \A x \in -1..ScreenWidth, y \in -1..ScreenHeight :
              Cardinality(LeavesAt(x, y))
                 = IF InViewportRect(calc.viewport, x, y) /\ ~CoveredAfterOwner(x, y)
                   THEN 1 ELSE 0
        /\ \A j \in DOMAIN calc.events :
              calc.events[j].kind = "copy" =>
                 /\ \E k \in DOMAIN calc.carve :
                       /\ calc.carve[k].leaf
                       /\ calc.events[j].left = calc.carve[k].viewport.pos.x
                       /\ calc.events[j].top = calc.carve[k].viewport.pos.y
                       /\ calc.events[j].right - calc.events[j].left
                             = calc.carve[k].viewport.width
                       /\ calc.events[j].bottom - calc.events[j].top
                             = calc.carve[k].viewport.height
                 /\ \A x \in calc.events[j].left..(calc.events[j].right - 1),
                       y \in calc.events[j].top..(calc.events[j].bottom - 1) :
                       ~CoveredAfterOwner(x, y)

\* Two windows after the owner each cover a part of the viewport, the
\* carving has two leaves or more and pixels were copied.
CarveLeavesPartitionUncoveredWitness ==
    /\ calc.op = "shift"
    /\ calc.path = "shift"
    /\ calc.it = 1
    /\ \A i \in 2..3 : ~RedrawSkips(calc.list[i], calc.viewport)
    /\ calc.list[2].windowPos # calc.list[3].windowPos
    /\ Cardinality({k \in DOMAIN calc.carve : calc.carve[k].leaf}) >= 2
    /\ \E j \in DOMAIN calc.events : calc.events[j].kind = "copy"

\* The block copies that ViewportRedrawAfterShift made of the rectangle of
\* the viewport state
LeafCopies(viewport) ==
    {j \in DOMAIN calc.events :
        /\ calc.events[j].kind = "copy"
        /\ calc.events[j].left = viewport.pos.x
        /\ calc.events[j].top = viewport.pos.y
        /\ calc.events[j].right = viewport.pos.x + viewport.width
        /\ calc.events[j].bottom = viewport.pos.y + viewport.height}

\* The repaints that ViewportRedrawAfterShift made inside that rectangle
LeafDraws(viewport) ==
    {j \in DOMAIN calc.events :
        /\ calc.events[j].kind = "draw"
        /\ calc.events[j].by = "ViewportRedrawAfterShift"
        /\ viewport.pos.x <= calc.events[j].left
        /\ calc.events[j].right <= viewport.pos.x + viewport.width
        /\ viewport.pos.y <= calc.events[j].top
        /\ calc.events[j].bottom <= viewport.pos.y + viewport.height}

\* The repaints among them that hold the screen pixel
LeafDrawsAt(viewport, x, y) ==
    {j \in LeafDraws(viewport) :
        /\ calc.events[j].left <= x /\ x < calc.events[j].right
        /\ calc.events[j].top <= y /\ y < calc.events[j].bottom}

\* The copy of the rectangle by coords supplies the pixel: the pixel it
\* comes from lies in the rectangle
CopySupplies(viewport, x, y) ==
    InViewportRect(viewport, x - calc.coords.x, y - calc.coords.y)

LeafCopied(viewport) ==
    Abs(calc.coords.x) < viewport.width /\ Abs(calc.coords.y) < viewport.height

(***************************************************************************)
(* C33: at a leaf rectangle of size (w, h) shifted by (dx, dy): if         *)
(* |dx| < w and |dy| < h, one block copy by (dx, dy) is issued and the     *)
(* repainted border strips, at most two, are disjoint and cover exactly    *)
(* the pixels of the rectangle that the shifted copy does not supply;      *)
(* otherwise the whole rectangle is repainted and no copy is issued.       *)
(***************************************************************************)
LeafCopyAndStripsExact ==
    (calc.op = "shift" /\ calc.path = "shift") =>
        \A k \in DOMAIN calc.carve :
            calc.carve[k].leaf =>
                LET leaf == calc.carve[k].viewport
                IN  /\ Cardinality(LeafCopies(leaf)) = IF LeafCopied(leaf) THEN 1 ELSE 0
                    /\ \A j \in LeafCopies(leaf) :
                          calc.events[j].dx = calc.coords.x
                          /\ calc.events[j].dy = calc.coords.y
                    /\ Cardinality(LeafDraws(leaf)) <= (IF LeafCopied(leaf) THEN 2 ELSE 1)
                    /\ \A x \in leaf.pos.x..(leaf.pos.x + leaf.width - 1),
                          y \in leaf.pos.y..(leaf.pos.y + leaf.height - 1) :
                          Cardinality(LeafDrawsAt(leaf, x, y))
                             = IF LeafCopied(leaf) /\ CopySupplies(leaf, x, y)
                               THEN 0 ELSE 1

\* One leaf is copied and has a strip repainted while another leaf, not as
\* high as the shift, is repainted whole.
LeafCopyAndStripsExactWitness ==
    /\ calc.op = "shift"
    /\ calc.path = "shift"
    /\ \E k, m \in DOMAIN calc.carve :
          /\ calc.carve[k].leaf
          /\ calc.carve[m].leaf
          /\ LeafCopied(calc.carve[k].viewport)
          /\ LeafDraws(calc.carve[k].viewport) # {}
          /\ ~LeafCopied(calc.carve[m].viewport)
          /\ LeafCopies(calc.carve[m].viewport) = {}

(***************************************************************************)
(* SpecVisibility: GetPaintStructVisibility is called on a node of each    *)
(* kind under every combination of the view flags it reads.                *)
(***************************************************************************)
VisibilityFlags ==
    {"HIDE_VEHICLES", "INVISIBLE_VEHICLES", "HIDE_RIDES", "INVISIBLE_RIDES",
     "HIDE_GUESTS", "HIDE_STAFF", "HIDE_PATHS", "INVISIBLE_PATHS",
     "HIDE_VEGETATION", "INVISIBLE_VEGETATION", "HIDE_SCENERY", "INVISIBLE_SCENERY",
     "UNDERGROUND_INSIDE"}

\* Tile elements: a tree, a fence of a scenery group, a hedge placed with the
\* tree tool, a large scenery piece placed with the flower tool or not
TileElement(type, isTree, tool_id) ==
    [has |-> TRUE, type |-> type,
     entry |-> [has |-> TRUE, isTree |-> isTree, tool_id |-> tool_id]]

\* A node of the category with the element, and whether the element is
\* vegetation
VisibilityNode(item, element, entityType, vegetation) ==
    [ps |-> PaintStruct(PlainImage(10), XY(0, 0), XY(0, 0), item, element,
                        [NoPsEntity EXCEPT !.has = entityType # "Null",
                                           !.Type = entityType], <<>>),
     vegetation |-> vegetation]

VisibilityNodes ==
    {VisibilityNode("Ride", NoElement, "Null", FALSE),
     VisibilityNode("Footpath", NoElement, "Null", FALSE),
     VisibilityNode("PathAddition", NoElement, "Null", FALSE),
     VisibilityNode("Banner", NoElement, "Null", FALSE),
     VisibilityNode("Scenery", TileElement("SmallScenery", TRUE, "Arrow"), "Null", TRUE),
     VisibilityNode("Scenery", TileElement("SmallScenery", FALSE, "Arrow"), "Null", FALSE),
     VisibilityNode("LargeScenery", TileElement("LargeScenery", FALSE, "FlowerDown"),
                    "Null", TRUE),
     VisibilityNode("LargeScenery", TileElement("LargeScenery", FALSE, "Arrow"),
                    "Null", FALSE),
     VisibilityNode("Wall", TileElement("Wall", FALSE, "TreeDown"), "Null", TRUE),
     VisibilityNode("Wall", TileElement("Wall", FALSE, "Arrow"), "Null", FALSE),
     VisibilityNode("Wall", NoElement, "Null", FALSE),
     VisibilityNode("Entity", NoElement, "Guest", FALSE),
     VisibilityNode("Entity", NoElement, "Staff", FALSE)}

CalcVisibility ==
    /\ calc.op = "none"
    /\ \E node \in VisibilityNodes, viewFlags \in SUBSET VisibilityFlags :
          calc' = [op |-> "visibility", ps |-> node.ps, vegetation |-> node.vegetation,
                   viewFlags |-> viewFlags,
                   kind |-> GetPaintStructVisibility(node.ps, viewFlags)]
    /\ UNCHANGED <<registryVars, paintVars, pickVars, damageVars, gShowGridLinesRefCount>>

NextVisibility == CalcVisibility \/ CalcReturn

SpecVisibility == InitCalc /\ [][NextVisibility]_vars

\* Visible when the hide flag is clear, Partial when it is set and the
\* invisible flag is clear, Hidden when both are set
HideFlagKind(hide, invisible) ==
    IF hide \notin calc.viewFlags THEN "Visible"
    ELSE IF invisible \in calc.viewFlags THEN "Hidden"
    ELSE "Partial"

(***************************************************************************)
(* C36: GetPaintStructVisibility, for every combination of view flags: a   *)
(* ride node, a path node (footpath, path addition, banner) and a scenery  *)
(* or large-scenery node with a tile element (by the vegetation flags when *)
(* the element is vegetation, by the scenery flags otherwise) is Visible   *)
(* when its hide flag is clear, Partial when the hide flag is set and the  *)
(* invisible flag is clear, Hidden when both are set; a guest or staff     *)
(* entity is Hidden exactly when its hide flag is set and never Partial; a *)
(* wall node not classified by its hide flags is Partial whenever the      *)
(* inside-underground flag is set.                                         *)
(***************************************************************************)
VisibilityByCategory ==
    calc.op = "visibility" =>
        LET item == calc.ps.InteractionItem
            sceneryKind == IF calc.vegetation
                           THEN HideFlagKind("HIDE_VEGETATION", "INVISIBLE_VEGETATION")
                           ELSE HideFlagKind("HIDE_SCENERY", "INVISIBLE_SCENERY")
        IN  /\ item = "Ride" => calc.kind = HideFlagKind("HIDE_RIDES", "INVISIBLE_RIDES")
            /\ item \in {"Footpath", "PathAddition", "Banner"}
                  => calc.kind = HideFlagKind("HIDE_PATHS", "INVISIBLE_PATHS")
            /\ (item \in {"Scenery", "LargeScenery"} /\ calc.ps.Element.has)
                  => calc.kind = sceneryKind
            /\ (item = "Entity" /\ calc.ps.Entity.Type = "Guest")
                  => calc.kind = IF "HIDE_GUESTS" \in calc.viewFlags
                                 THEN "Hidden" ELSE "Visible"
            /\ (item = "Entity" /\ calc.ps.Entity.Type = "Staff")
                  => calc.kind = IF "HIDE_STAFF" \in calc.viewFlags
                                 THEN "Hidden" ELSE "Visible"
            /\ (item = "Wall" /\ calc.ps.Element.has /\ sceneryKind # "Visible")
                  => calc.kind = sceneryKind
            /\ (item = "Wall" /\ (calc.ps.Element.has => sceneryKind = "Visible")
                   /\ "UNDERGROUND_INSIDE" \in calc.viewFlags)
                  => calc.kind = "Partial"

\* A hedge while scenery, not vegetation, is hidden and made invisible, seen
\* from inside the underground view: it is Partial, not Hidden.
VisibilityByCategoryWitness ==
    /\ calc.op = "visibility"
    /\ calc.ps.InteractionItem = "Wall"
    /\ calc.vegetation
    /\ {"HIDE_SCENERY", "INVISIBLE_SCENERY", "UNDERGROUND_INSIDE"} \subseteq calc.viewFlags
    /\ "HIDE_VEGETATION" \notin calc.viewFlags
    /\ "INVISIBLE_VEGETATION" \in calc.viewFlags
    /\ calc.kind = "Partial"

(***************************************************************************)
(* SpecRle: IsPixelPresentRLE is called on RLE data given as bytes: each   *)
(* run is the byte that holds its length and the end-of-line bit, and the  *)
(* byte that holds its start column.                                       *)
(***************************************************************************)
\* The byte with the length and the byte with the start of a run
RleBytes(numPixels, pixelRunStart) == <<numPixels, pixelRunStart>>

RleEndBit == 128

RleDecodeRun_KeepsEndBit(bytes) == Run(bytes[2], bytes[1], bytes[1] \div RleEndBit = 1)

\* IsPixelPresentRLE, lines 1617-1620: lastDataLine = numPixels & 0x80 and
\* numPixels &= 0x7F
RleDecodeRun(bytes) == Run(bytes[2], bytes[1] % RleEndBit, bytes[1] \div RleEndBit = 1)

RleDecodeRow(row) == [i \in DOMAIN row |-> RleDecodeRun(row[i])]

\* Runs that do not end a row: empty, one pixel, three pixels, from column
\* 0, 2 or 5
RleInnerRuns == {RleBytes(n, start) : n \in {0, 1, 3}, start \in {0, 2, 5}}

MaxRuns == 3

RECURSIVE RleRowsOfLen(_)
RleRowsOfLen(n) ==
    IF n = 1
    THEN {<<RleBytes(r[1] + RleEndBit, r[2])>> : r \in RleInnerRuns}
    ELSE {<<r>> \o row : r \in RleInnerRuns, row \in RleRowsOfLen(n - 1)}

\* Rows whose last run, and no other, carries the end-of-line bit
RleRows == UNION {RleRowsOfLen(n) : n \in 1..MaxRuns}

\* The other row of the sprite
RleOtherRow == <<RleBytes(1, 7), RleBytes(2 + RleEndBit, 1)>>

CalcRle ==
    /\ calc.op = "none"
    /\ \E row \in RleRows, x \in 0..8, y \in {0, 1} :
          \E rows \in {IF y = 0 THEN <<row, RleOtherRow>> ELSE <<RleOtherRow, row>>} :
              calc' = [op |-> "rle", rows |-> rows, x |-> x, y |-> y,
                       present |-> IsPixelPresentRLE(
                                       [r \in DOMAIN rows |-> RleDecodeRow(rows[r])], x, y)]
    /\ UNCHANGED <<registryVars, paintVars, pickVars, damageVars, gShowGridLinesRefCount>>

NextRle == CalcRle \/ CalcReturn

SpecRle == InitCalc /\ [][NextRle]_vars

\* Column x lies in run i of the row: from the start byte on, for as many
\* pixels as the low 7 bits of the length byte
InRleRun(row, i, x) ==
    /\ row[i][2] <= x
    /\ x < row[i][2] + (row[i][1] % 128)

(***************************************************************************)
(* C37: IsPixelPresentRLE terminates on every row whose run list ends with *)
(* a run carrying the end-of-line bit, and returns true exactly when       *)
(* column x lies in [runStart, runStart + runLength) for some run of row   *)
(* y, where runLength is the low 7 bits of the run's first byte.           *)
(***************************************************************************)
RlePresentIffInSomeRun ==
    calc.op = "rle" =>
        (calc.present <=>
            \E i \in DOMAIN calc.rows[calc.y + 1] : InRleRun(calc.rows[calc.y + 1], i, calc.x))

\* The column lies only in the run that ends the second row, after two runs
\* that do not hold it, and in no run of the other row.
RlePresentIffInSomeRunWitness ==
    /\ calc.op = "rle"
    /\ calc.y = 1
    /\ Len(calc.rows[2]) = 3
    /\ InRleRun(calc.rows[2], 3, calc.x)
    /\ ~InRleRun(calc.rows[2], 1, calc.x)
    /\ ~InRleRun(calc.rows[2], 2, calc.x)
    /\ \A i \in DOMAIN calc.rows[1] : ~InRleRun(calc.rows[1], i, calc.x)
    /\ calc.present

(***************************************************************************)
(* SpecGrid: the main window has its viewport and the tools call           *)
(* ShowGridlines and HideGridlines; the always-show-gridlines setting is   *)
(* off.                                                                    *)
(***************************************************************************)
\* uint8_t arithmetic: gShowGridLinesRefCount++ wraps
Uint8(v) == v % Pow2(8)

\* ShowGridlines, lines 1234-1249: the flags of the main viewport afterwards
ShowGridlinesFlags(count, mainWindow, flags) ==
    IF count = 0 /\ mainWindow.has THEN flags \cup {"GRIDLINES"} ELSE flags

\* HideGridlines, lines 1257-1258: the count after the decrement
HideGridlinesCount(count) == IF count > 0 THEN count - 1 ELSE count

\* HideGridlines, lines 1260-1271: the flags of the main viewport afterwards
HideGridlinesFlags(count, mainWindow, flags, alwaysShowGridlines) ==
    IF HideGridlinesCount(count) = 0 /\ mainWindow.has /\ ~alwaysShowGridlines
    THEN flags \ {"GRIDLINES"}
    ELSE flags

GridCreate ==
    /\ viewports = <<>>
    /\ ViewportCreate("main", XY(2, 2), 8, 6, CoordinateFocus(XYZ(32, 32, 0), 0), FALSE)

ShowGridlines ==
    /\ windows["main"].viewport # nullptr
    /\ viewports' = SetViewport(windows["main"].viewport,
                                [VpOf(windows["main"].viewport) EXCEPT
                                    !.flags = ShowGridlinesFlags(gShowGridLinesRefCount,
                                                                 WindowGetMain, @)])
    /\ gShowGridLinesRefCount' = Uint8(gShowGridLinesRefCount + 1)
    /\ Called("ShowGridlines", "main", "returned")
    /\ UNCHANGED <<windows, entities, paintVars, pickVars, damageVars, calc>>

HideGridlines ==
    /\ windows["main"].viewport # nullptr
    /\ viewports' = SetViewport(windows["main"].viewport,
                                [VpOf(windows["main"].viewport) EXCEPT
                                    !.flags = HideGridlinesFlags(gShowGridLinesRefCount,
                                                                 WindowGetMain, @, FALSE)])
    /\ gShowGridLinesRefCount' = HideGridlinesCount(gShowGridLinesRefCount)
    /\ Called("HideGridlines", "main",
              IF gShowGridLinesRefCount = 0 THEN "at zero" ELSE "returned")
    /\ UNCHANGED <<windows, entities, paintVars, pickVars, damageVars, calc>>

NextGrid == GridCreate \/ ShowGridlines \/ HideGridlines

SpecGrid == Init /\ [][NextGrid]_vars

(***************************************************************************)
(* C38: with a main window present and the always-show-gridlines setting   *)
(* off, after any sequence of ShowGridlines and HideGridlines calls the    *)
(* main viewport's gridlines flag is set exactly when the 8-bit gridlines  *)
(* reference count is greater than zero, and a HideGridlines call at count *)
(* zero leaves the count at zero.                                          *)
(***************************************************************************)
GridlinesFlagIffCounted ==
    windows["main"].viewport # nullptr =>
        /\ ("GRIDLINES" \in VpOf(windows["main"].viewport).flags
               <=> gShowGridLinesRefCount > 0)
        /\ (lastCall.op = "HideGridlines" /\ lastCall.result = "at zero")
               => gShowGridLinesRefCount = 0

(***************************************************************************)
(* SpecRotate: the two windows create their viewports, the window code     *)
(* sets or clears a viewport's independent-rotation flag, and the          *)
(* viewports are rotated one at a time or all together. lastCall counts    *)
(* the rotations of a run, calls of the same function with the same        *)
(* arguments in a row, up to four, and keeps the rotations the viewports   *)
(* had when the run began.                                                 *)
(***************************************************************************)
RotateCreate ==
    \E w \in WindowIds :
        /\ windows[w].viewport = nullptr
        /\ ViewportCreate(w, XY(2, 2), 8, 6, CoordinateFocus(XYZ(32, 32, 0), 0), FALSE)

\* The window code of a ride or guest window sets the flag, or clears it.
RotateSetIndependent ==
    /\ \E w \in WindowIds :
          /\ windows[w].viewport # nullptr
          /\ viewports' = SetViewport(
                              windows[w].viewport,
                              [VpOf(windows[w].viewport) EXCEPT
                                  !.flags = IF "INDEPEDENT_ROTATION" \in @
                                            THEN @ \ {"INDEPEDENT_ROTATION"}
                                            ELSE @ \cup {"INDEPEDENT_ROTATION"}])
    /\ lastCall' = NoCall
    /\ UNCHANGED <<windows, entities, paintVars, pickVars, damageVars, calcVars>>

\* The call continues the run of the last calls
RotateRunGoesOn(op, w, direction) ==
    /\ lastCall.op = op
    /\ lastCall.w = w
    /\ lastCall.direction = direction
    /\ lastCall.run < 4

RotateCalled(op, w, direction) ==
    lastCall' = [op |-> op, w |-> w, result |-> "rotated", direction |-> direction,
                 run |-> IF RotateRunGoesOn(op, w, direction) THEN lastCall.run + 1 ELSE 1,
                 from |-> IF RotateRunGoesOn(op, w, direction)
                          THEN lastCall.from
                          ELSE [i \in 1..Len(viewports) |-> viewports[i].rotation]]

\* ViewportRotateSingle(w, direction), lines 901-904
ViewportRotateSingle ==
    \E w \in WindowIds, direction \in {-1, 1} :
        /\ windows[w].viewport # nullptr
        /\ \E probe \in ViewProbes(VpOf(windows[w].viewport)) :
           LET r == ViewportRotateSingleInternal(windows[w], VpOf(windows[w].viewport),
                                                 direction, probe)
           IN  /\ windows' = [windows EXCEPT ![w] = r.window]
               /\ viewports' = SetViewport(windows[w].viewport, r.viewport)
        /\ RotateCalled("ViewportRotateSingle", w, direction)
        /\ UNCHANGED <<entities, paintVars, pickVars, damageVars, calcVars>>

RotateAllVisits_Every(window) == window.viewport # nullptr

\* ViewportRotateAll, lines 909-913: the window is not passed over
RotateAllVisits(window) ==
    /\ window.viewport # nullptr
    /\ "INDEPEDENT_ROTATION" \notin VpOf(window.viewport).flags

\* ViewportRotateAll(direction), lines 906-916: WindowVisitEach calls
\* ViewportRotateSingleInternal on each window that is not passed over; a
\* window and its viewport are touched by their own visit only
ViewportRotateAll ==
    \E direction \in {-1, 1} :
        /\ \E probes \in [WindowIds -> {[has |-> TRUE, same |-> TRUE, pos |-> XY(40, 8)],
                                         [has |-> FALSE, same |-> FALSE, pos |-> XY(0, 0)]}] :
              /\ \A w \in WindowIds :
                    windows[w].viewport # nullptr
                       => probes[w] \in ViewProbes(VpOf(windows[w].viewport))
              /\ \A w \in WindowIds : windows[w].viewport = nullptr => probes[w].has
              /\ LET rotated(w) == ViewportRotateSingleInternal(
                                        windows[w], VpOf(windows[w].viewport),
                                        direction, probes[w])
                 IN  /\ windows' = [w \in WindowIds |->
                                       IF RotateAllVisits(windows[w])
                                       THEN rotated(w).window
                                       ELSE windows[w]]
                     /\ viewports' =
                           [i \in 1..Len(viewports) |->
                               IF \E w \in WindowIds :
                                     /\ windows[w].viewport = viewports[i].id
                                     /\ RotateAllVisits(windows[w])
                               THEN rotated(GetOwner(viewports[i].id)).viewport
                               ELSE viewports[i]]
        /\ RotateCalled("ViewportRotateAll", "all", direction)
        /\ UNCHANGED <<entities, paintVars, pickVars, damageVars, calcVars>>

NextRotate ==
    \/ RotateCreate
    \/ RotateSetIndependent
    \/ ViewportRotateSingle
    \/ ViewportRotateAll

SpecRotate == Init /\ [][NextRotate]_vars

\* The last call was a rotation
RotateWasCalled == lastCall.op \in {"ViewportRotateSingle", "ViewportRotateAll"}

\* The viewports the calls of the run rotate: the window's own for
\* ViewportRotateSingle, every one whose flag is clear for ViewportRotateAll
RotatedInRun(i) ==
    IF lastCall.op = "ViewportRotateSingle"
    THEN windows[lastCall.w].viewport = viewports[i].id
    ELSE "INDEPEDENT_ROTATION" \notin viewports[i].flags

\* C39: after any sequence of ViewportRotateSingle and ViewportRotateAll
\* calls with direction +1 or -1 every viewport's rotation is one of 0, 1,
\* 2, 3, and four rotations in the same direction bring a viewport back to
\* the rotation it had: n calls in a row leave each viewport they rotate n
\* quarter turns from where it was, so at another rotation after one, two
\* or three calls and at its own after four.
RotationStaysInRangeAndCycles ==
    /\ \A i \in 1..Len(viewports) : viewports[i].rotation \in 0..3
    /\ RotateWasCalled
          => \A i \in 1..Len(viewports) :
                IF RotatedInRun(i)
                THEN /\ viewports[i].rotation
                          = (lastCall.from[i] + lastCall.run * lastCall.direction) % 4
                     /\ lastCall.run = 4 <=> viewports[i].rotation = lastCall.from[i]
                ELSE viewports[i].rotation = lastCall.from[i]

\* Four ViewportRotateAll calls to the left were made in a row, with two
\* viewports of different rotations taking part
RotationStaysInRangeAndCyclesWitness ==
    /\ lastCall.op = "ViewportRotateAll"
    /\ lastCall.direction = -1
    /\ lastCall.run = 4
    /\ Len(viewports) = 2
    /\ \A i \in 1..Len(viewports) : RotatedInRun(i)
    /\ viewports[1].rotation # viewports[2].rotation

\* C40: ViewportRotateAll changes the rotation, the view position and the
\* owning window's saved view position only of viewports whose
\* independent-rotation flag is clear: a viewport with the flag set, its
\* window, and a window without a viewport are left as they were, and a
\* viewport with the flag clear is turned by the direction.
RotateAllPassesOverIndependent ==
    [][lastCall'.op = "ViewportRotateAll"
         => /\ Len(viewports') = Len(viewports)
            /\ \A i \in 1..Len(viewports) :
                  IF "INDEPEDENT_ROTATION" \in viewports[i].flags
                  THEN /\ viewports'[i] = viewports[i]
                       /\ windows'[GetOwner(viewports[i].id)]
                             = windows[GetOwner(viewports[i].id)]
                  ELSE /\ viewports'[i].rotation
                             = (viewports[i].rotation + lastCall'.direction) % 4
                       /\ viewports'[i].flags = viewports[i].flags
            /\ \A w \in WindowIds :
                  windows[w].viewport = nullptr => windows'[w] = windows[w]]_vars

\* ViewportRotateAll has turned one viewport and passed over the other, whose
\* flag is set: the two had the same rotation and view position before
RotateAllPassesOverIndependentWitness ==
    /\ lastCall.op = "ViewportRotateAll"
    /\ lastCall.run = 1
    /\ Len(viewports) = 2
    /\ lastCall.from[1] = lastCall.from[2]
    /\ \E i, j \in 1..2 :
          /\ "INDEPEDENT_ROTATION" \in viewports[i].flags
          /\ "INDEPEDENT_ROTATION" \notin viewports[j].flags
          /\ viewports[i].rotation = lastCall.from[i]
          /\ viewports[j].rotation # viewports[i].rotation
          /\ viewports[j].viewPos # viewports[i].viewPos

(***************************************************************************)
(* SpecFollow: the focus tracker. A window creates its viewport, the       *)
(* window code sets the entity it follows or starts a scroll, the          *)
(* simulation changes entity 1, and ViewportUpdatePosition runs each tick. *)
(* lastCall holds the tick that has just run, with the window and the      *)
(* viewport it started from and whether it invalidated the window, and is  *)
(* reset by every other step.                                              *)
(***************************************************************************)
\* An id beyond the entity table: it resolves to nullptr
EntityIdGone == Cardinality(EntityIds) + 1

\* States of entity 1. Ride 1 is on track with entity 2 as train, ride 2 has
\* no track, ride 3 does not exist; the terrain is 32 high here, so the guest
\* at z = 15 is under it. The positions are within a few pixels of each other
\* on screen.
FollowEntityStates ==
    {Entity("Guest", 47, 49, 16, "Walking"),
     Entity("Guest", 47, 49, 15, "Walking"),
     Entity("Guest", 47, 49, 16, "Picked"),
     [Entity("Guest", LOCATION_NULL, 0, 0, "OnRide") EXCEPT !.CurrentRide = 1],
     [Entity("Guest", LOCATION_NULL, 0, 0, "OnRide") EXCEPT !.CurrentRide = 2],
     [Entity("Guest", 47, 49, 16, "EnteringRide") EXCEPT !.CurrentRide = 2],
     [Entity("Guest", LOCATION_NULL, 0, 0, "LeavingRide") EXCEPT !.CurrentRide = 3],
     [Entity("Guest", 47, 49, 16, "LeavingRide") EXCEPT !.CurrentRide = 1],
     Entity("Staff", 47, 49, 16, "Walking"),
     Entity("Staff", 47, 49, 16, "Picked"),
     Entity("Litter", 46, 50, 16, "None"),
     NoEntity}

\* The smart-follow ref and the target-sprite ref the window code sets
FollowRefs ==
    {<<EntityIdNull, EntityIdNull>>, <<EntityIdNull, 1>>, <<EntityIdNull, EntityIdGone>>,
     <<1, 1>>, <<EntityIdGone, EntityIdGone>>, <<EntityIdGone, 1>>}

InitFollow ==
    /\ viewports = <<>>
    /\ windows = InitWindows
    /\ entities = [e \in EntityIds |->
                      IF e = 1 THEN Entity("Guest", 47, 49, 16, "Walking")
                      ELSE Entity("Vehicle", 49, 49, 16, "None")]
    /\ lastCall = NoCall
    /\ InitPaintIdle
    /\ InitPickIdle /\ InitRestIdle

FollowCreate ==
    /\ viewports = <<>>
    /\ \E w \in WindowIds :
          ViewportCreate(w, XY(2, 2), 8, 6, CoordinateFocus(XYZ(32, 32, 0), 0), FALSE)

\* ViewportUpdatePosition(w), the per-tick entry point
FollowTick ==
    \E w \in WindowIds, titleDemo \in BOOLEAN, dirtyOptimisations \in BOOLEAN :
        /\ windows[w].viewport # nullptr
        /\ \E window \in {windows[w]}, viewport \in {VpOf(windows[w].viewport)} :
              \E r \in {ViewportUpdatePosition(window, viewport, titleDemo,
                                               dirtyOptimisations)} :
                  /\ windows' = [windows EXCEPT ![w] = r.window]
                  /\ viewports' = SetViewport(window.viewport, r.viewport)
                  /\ lastCall' = [op |-> "ViewportUpdatePosition", w |-> w,
                                  result |-> r.move, window |-> window,
                                  viewport |-> viewport,
                                  invalidated |-> ViewportUpdatePositionInvalidates(
                                                      window, viewport, titleDemo)]
        /\ UNCHANGED <<entities, paintVars, pickVars, damageVars, calcVars>>

\* The window code sets or clears the entities the viewport follows.
FollowSetTargets ==
    /\ \E w \in WindowIds :
          /\ windows[w].viewport # nullptr
          /\ \E refs \in FollowRefs :
                windows' = [windows EXCEPT
                               ![w].viewport_smart_follow_sprite = refs[1],
                               ![w].viewport_target_sprite = refs[2]]
    /\ lastCall' = NoCall
    /\ UNCHANGED <<viewports, entities, paintVars, pickVars, damageVars, calcVars>>

\* The window code starts a scroll to a location.
FollowScrollTo ==
    /\ \E w \in WindowIds :
          /\ windows[w].viewport # nullptr
          /\ windows' = [windows EXCEPT
                            ![w].savedViewPos = XY(-3, 28),
                            ![w].flags = @ \cup {"WF_SCROLLING_TO_LOCATION"}]
    /\ lastCall' = NoCall
    /\ UNCHANGED <<viewports, entities, paintVars, pickVars, damageVars, calcVars>>

\* The simulation moves, frees or changes entity 1.
FollowEntityUpdate ==
    /\ \E state \in FollowEntityStates : entities' = [entities EXCEPT ![1] = state]
    /\ lastCall' = NoCall
    /\ UNCHANGED <<viewports, windows, paintVars, pickVars, damageVars, calcVars>>

NextFollow ==
    \/ FollowCreate
    \/ FollowTick
    \/ FollowSetTargets
    \/ FollowScrollTo
    \/ FollowEntityUpdate

SpecFollow == InitFollow /\ [][NextFollow]_vars

\* A tick has just run: lastCall.window and lastCall.viewport are the window
\* and its viewport as the tick found them, TickWindow and TickViewport as it
\* left them.
Ticked == lastCall.op = "ViewportUpdatePosition"

TickWindow == windows[lastCall.w]

TickViewport == VpOf(windows[lastCall.w].viewport)

\* The entity table can hand out an entity for the id and its slot is in use.
Resolves(id) == id \in DOMAIN entities /\ entities[id].Type # "Null"

\* The tick found a smart-follow ref whose entity cannot be resolved.
TickLostSmartTarget ==
    /\ Ticked
    /\ lastCall.window.viewport_smart_follow_sprite # EntityIdNull
    /\ ~Resolves(lastCall.window.viewport_smart_follow_sprite)

(***************************************************************************)
(* C22 as stated: in a tick where the window's smart-follow target cannot  *)
(* be resolved, both refs are cleared and the update stops: the saved view *)
(* position is not recentred, the viewport (its underground flag and view  *)
(* position included) is unchanged and ViewportMove is not called.         *)
(***************************************************************************)
LostSmartTargetStopsTick ==
    TickLostSmartTarget =>
        /\ TickWindow.viewport_smart_follow_sprite = EntityIdNull
        /\ TickWindow.viewport_target_sprite = EntityIdNull
        /\ TickWindow.savedViewPos = lastCall.window.savedViewPos
        /\ TickViewport = lastCall.viewport
        /\ lastCall.result = "none"

(***************************************************************************)
(* C22 as amended: in a tick where the window's smart-follow target cannot *)
(* be resolved, both refs are cleared and no entity is centred on; the     *)
(* tick then goes on as the fixed-coordinate update of a window without    *)
(* follow targets: gated clear of the underground flag, map-edge clamp,    *)
(* scroll step and ViewportMove.                                           *)
(***************************************************************************)
LostSmartTargetFallsToFixed ==
    TickLostSmartTarget =>
        /\ TickWindow.viewport_smart_follow_sprite = EntityIdNull
        /\ TickWindow.viewport_target_sprite = EntityIdNull
        /\ \E dirtyOptimisations \in BOOLEAN :
              \E r \in {ViewportUpdateFixed(
                            [lastCall.window EXCEPT
                                !.viewport_smart_follow_sprite = EntityIdNull,
                                !.viewport_target_sprite = EntityIdNull],
                            lastCall.viewport, dirtyOptimisations)} :
                  /\ TickWindow = r.window
                  /\ TickViewport = r.viewport
                  /\ lastCall.result = r.move

\* A window that was following an underground guest lost its smart-follow
\* target while its target sprite still resolved: the tick cleared the
\* underground flag and called ViewportMove.
LostSmartTargetFallsToFixedWitness ==
    /\ TickLostSmartTarget
    /\ Resolves(lastCall.window.viewport_target_sprite)
    /\ "UNDERGROUND_INSIDE" \in lastCall.viewport.flags
    /\ "UNDERGROUND_INSIDE" \notin TickViewport.flags
    /\ lastCall.result # "none"

\* The tick found a smart-follow ref to a guest that is not picked up.
TickFollowsGuest ==
    /\ Ticked
    /\ Resolves(lastCall.window.viewport_smart_follow_sprite)
    /\ entities[lastCall.window.viewport_smart_follow_sprite].Type = "Guest"
    /\ entities[lastCall.window.viewport_smart_follow_sprite].State # "Picked"

\* The guest the tick followed, the ride the guest is on and the car of the
\* guest there (EntityIdNull when the ride is off track or the car is not
\* found)
TickGuest == entities[lastCall.window.viewport_smart_follow_sprite]

TickRide == GetRide(TickGuest.CurrentRide)

TickCar ==
    IF TickRide.has /\ TickRide.onTrack
    THEN GetCarId(TickRide, TickGuest.CurrentTrain, TickGuest.CurrentCar)
    ELSE EntityIdNull

TickGuestRiding ==
    \/ TickGuest.State \in {"OnRide", "EnteringRide"}
    \/ (TickGuest.State = "LeavingRide" /\ TickGuest.x = LOCATION_NULL)

(***************************************************************************)
(* C23: smart-follow of a guest that is not picked up. If the guest is on  *)
(* a ride, entering a ride, or leaving a ride with a null position, and    *)
(* the ride is on track and the guest's car resolves, focus and target     *)
(* sprite are that car; otherwise, if the guest's position is null and the *)
(* ride resolves, focus is the coordinate of the centre of the ride's      *)
(* overall-view tile at terrain height plus 32 and the target sprite is    *)
(* null; otherwise focus and target sprite are the guest.                  *)
(***************************************************************************)
SmartFollowGuestResolution ==
    TickFollowsGuest =>
        IF TickGuestRiding /\ TickCar # EntityIdNull
        THEN /\ TickWindow.focus = SomeFocus(EntityFocus(TickCar, 0))
             /\ TickWindow.viewport_target_sprite = TickCar
        ELSE IF TickGuest.x = LOCATION_NULL /\ TickRide.has
        THEN /\ TickWindow.focus.has
             /\ TickWindow.focus.value.kind = "coordinate"
             /\ TickWindow.focus.value.pos =
                    XYZ(TickRide.overall_view.x * 32 + 16,
                        TickRide.overall_view.y * 32 + 16,
                        TileElementHeight(XY(TickRide.overall_view.x * 32 + 16,
                                             TickRide.overall_view.y * 32 + 16)) + 32)
             /\ TickWindow.viewport_target_sprite = EntityIdNull
        ELSE /\ TickWindow.focus =
                    SomeFocus(EntityFocus(lastCall.window.viewport_smart_follow_sprite, 0))
             /\ TickWindow.viewport_target_sprite =
                    lastCall.window.viewport_smart_follow_sprite

\* A window that was following the guest itself found the guest on a ride
\* without track: the focus went to the ride's overall view and the target
\* sprite was cleared.
SmartFollowGuestResolutionWitness ==
    /\ TickFollowsGuest
    /\ TickGuest.State = "OnRide"
    /\ TickGuest.CurrentRide = 2
    /\ lastCall.window.viewport_target_sprite = 1
    /\ TickWindow.focus.has
    /\ TickWindow.focus.value.kind = "coordinate"
    /\ TickWindow.viewport_target_sprite = EntityIdNull

\* The tick found a smart-follow ref to a guest or a staff member that is
\* picked up.
TickFollowsPicked ==
    /\ Ticked
    /\ Resolves(lastCall.window.viewport_smart_follow_sprite)
    /\ entities[lastCall.window.viewport_smart_follow_sprite].Type \in {"Guest", "Staff"}
    /\ entities[lastCall.window.viewport_smart_follow_sprite].State = "Picked"

(***************************************************************************)
(* C24: when the smart-follow target is a guest or a staff member in the   *)
(* picked-up state, the window has no focus after the tick and both its    *)
(* smart-follow ref and its target-sprite ref are null, so that later      *)
(* ticks find nothing to follow.                                           *)
(***************************************************************************)
PickedUpClearsFollow ==
    TickFollowsPicked =>
        /\ ~TickWindow.focus.has
        /\ TickWindow.viewport_smart_follow_sprite = EntityIdNull
        /\ TickWindow.viewport_target_sprite = EntityIdNull

\* A window that had a focus on the staff member it followed ticked after
\* the staff member was picked up.
PickedUpClearsFollowWitness ==
    /\ TickFollowsPicked
    /\ entities[lastCall.window.viewport_smart_follow_sprite].Type = "Staff"
    /\ lastCall.window.focus.has
    /\ lastCall.window.viewport_target_sprite = 1
    /\ ~TickWindow.focus.has

\* The target-sprite ref that line 630 of the tick tested: the one the
\* smart-follow resolution left, or the window's own when the window has no
\* smart-follow ref
TickTarget ==
    IF lastCall.window.viewport_smart_follow_sprite # EntityIdNull
    THEN ViewportUpdateSmartFollowEntity(lastCall.window).viewport_target_sprite
    ELSE lastCall.window.viewport_target_sprite

(***************************************************************************)
(* C25: in a tick where the window's target-sprite ref is set but          *)
(* GetEntity finds no entity for it, the update stops: the viewport's view *)
(* position and flags and the window's saved view position, flags and      *)
(* target-sprite ref are as before the tick, and the fixed-coordinate      *)
(* update is not run (ViewportMove is not called).                         *)
(***************************************************************************)
GoneTargetStopsTick ==
    (Ticked /\ TickTarget # EntityIdNull /\ TickTarget \notin DOMAIN entities) =>
        /\ TickViewport.viewPos = lastCall.viewport.viewPos
        /\ TickViewport.flags = lastCall.viewport.flags
        /\ TickWindow.savedViewPos = lastCall.window.savedViewPos
        /\ TickWindow.flags = lastCall.window.flags
        /\ TickWindow.viewport_target_sprite = lastCall.window.viewport_target_sprite
        /\ lastCall.result = "none"

\* The tick of a ride window whose target is gone, with the underground
\* flag set, a scroll under way and the view away from the saved position:
\* the fixed-coordinate update would have changed all three.
GoneTargetStopsTickWitness ==
    /\ Ticked
    /\ TickTarget = EntityIdGone
    /\ lastCall.w = "ride"
    /\ "UNDERGROUND_INSIDE" \in TickViewport.flags
    /\ "WF_SCROLLING_TO_LOCATION" \in TickWindow.flags
    /\ TickViewport.viewPos # TickWindow.savedViewPos
    /\ lastCall.result = "none"

\* The view position that centres the view of the viewport on the entity the
\* tick followed
TickCentre ==
    XY(Translate3DTo2DWithZ(TickViewport.rotation,
                            XYZ(entities[TickTarget].x, entities[TickTarget].y,
                                entities[TickTarget].z)).x
           - TruncDiv(TickViewport.view_width, 2),
       Translate3DTo2DWithZ(TickViewport.rotation,
                            XYZ(entities[TickTarget].x, entities[TickTarget].y,
                                entities[TickTarget].z)).y
           - TruncDiv(TickViewport.view_height, 2))

\* The tick found a target sprite that resolves and has a location.
TickFollowsSprite ==
    /\ Ticked
    /\ TickTarget \in DOMAIN entities
    /\ entities[TickTarget].x # LOCATION_NULL

(***************************************************************************)
(* C26: in a tick where the target-sprite entity resolves and has a        *)
(* non-null location, the window's saved view position and the viewport's  *)
(* view position both end as the centring of the entity's location for the *)
(* viewport's rotation and view size, and the fixed-coordinate step is     *)
(* skipped: neither position is clamped to the map edge or stepped, and    *)
(* the scrolling-to-location flag is as before the tick.                   *)
(***************************************************************************)
FollowSpriteCentresAndStops ==
    TickFollowsSprite =>
        /\ TickWindow.savedViewPos = TickCentre
        /\ TickViewport.viewPos = TickCentre
        /\ ("WF_SCROLLING_TO_LOCATION" \in TickWindow.flags)
               = ("WF_SCROLLING_TO_LOCATION" \in lastCall.window.flags)

\* A window that was scrolling to a location followed a sprite: the view
\* and the saved position left where they were and the scroll is still on.
FollowSpriteCentresAndStopsWitness ==
    /\ TickFollowsSprite
    /\ "WF_SCROLLING_TO_LOCATION" \in TickWindow.flags
    /\ lastCall.window.savedViewPos = XY(-3, 28)
    /\ lastCall.viewport.viewPos # TickCentre
    /\ TickViewport.viewPos = TickCentre
    /\ TickWindow.savedViewPos = TickCentre
    /\ lastCall.result \notin {"none", "unchanged"}

\* The tick changed the inside-underground flag of the viewport.
TickChangedUnderground ==
    ("UNDERGROUND_INSIDE" \in TickViewport.flags)
        # ("UNDERGROUND_INSIDE" \in lastCall.viewport.flags)

(***************************************************************************)
(* C27: a tick changes the viewport's inside-underground flag only when    *)
(* the window is not the main window or is the main window with an active  *)
(* smart-follow target, so never for a main window without smart-follow;   *)
(* and the toggle invalidates the window exactly when the flag changes.    *)
(***************************************************************************)
UndergroundToggleGated ==
    Ticked =>
        /\ TickChangedUnderground =>
               \/ TickWindow.classification # "MainWindow"
               \/ TickWindow.viewport_smart_follow_sprite # EntityIdNull
        /\ lastCall.invalidated = TickChangedUnderground

\* The main window stopped smart-following a guest that was underground:
\* the flag stays set and the window is not invalidated.
UndergroundToggleGatedWitness ==
    /\ Ticked
    /\ TickWindow.classification = "MainWindow"
    /\ lastCall.window.viewport_smart_follow_sprite # EntityIdNull
    /\ TickWindow.viewport_smart_follow_sprite = EntityIdNull
    /\ "UNDERGROUND_INSIDE" \in lastCall.viewport.flags
    /\ "UNDERGROUND_INSIDE" \in TickViewport.flags
    /\ ~lastCall.invalidated

====
